---- MODULE Spec2Model ----
(***************************************************************************)
(* Model of the procedural blueprint generator of NebulaForge              *)
(* (src/backend/src/proceduralGenerator.ts).                               *)
(*                                                                         *)
(* Representation                                                          *)
(*  - Strings are TLA+ strings; an optional string argument is a sequence  *)
(*    of length 0 (undefined) or 1 (<<text>>).  Other undefined values are *)
(*    the string "undefined"; an optional number is <<>> or <<n>>.         *)
(*  - The generator state `value` is an integer.  JavaScript evaluates     *)
(*    (value * 16807) % 2147483647 exactly (the product is below 2^53);    *)
(*    the model evaluates the same residue with Schrage's decomposition,   *)
(*    which never leaves 31 bits.  The 32-bit seed is kept as the pair <<hi,lo>> *)
(*    of its 16-bit halves, seed = hi * 65536 + lo.                        *)
(*  - A draw is (value - 1) / 2147483646.  Every use of a draw r is of the *)
(*    form floor(r * n), round(r * n) or min + (max - min) * r; they are   *)
(*    computed exactly from value with MulDiv.                             *)
(*  - Real numbers are fixed point: lengths, scales, positions and angles  *)
(*    are in millionths (angles in micro-radians), metalness and roughness *)
(*    in hundredths, modifier magnitudes in units of 10^-8.                *)
(***************************************************************************)
EXTENDS Integers, Sequences, FiniteSets, TLC

(* Number of calls of generateModelSpec made in one behaviour. *)
MaxCalls == 3

Undefined == "undefined"

----------------------------------------------------------------------------
(* State of the generator and of the caller; the locals of a call are      *)
(* declared with the calls below.                                          *)

VARIABLES
  value,              \* state of the generator created in generateModelSpec
  calls               \* number of calls started

----------------------------------------------------------------------------
(* Exact integer arithmetic *)

Modulus == 2147483647
Divisor == 2147483646
Multiplier == 16807

(* Carry helpers for quotient/remainder pairs modulo Divisor. *)
Norm(q, x) == IF x >= Divisor THEN <<q + 1, x - Divisor>> ELSE <<q, x>>
AddRem(q, x, y) == IF x >= Divisor - y THEN <<q + 1, x - (Divisor - y)>> ELSE <<q, x + y>>

(* <<q, r>> with a * n = q * Divisor + r, for 0 <= a < Divisor, 0 <= n <= 32768. *)
(* a = a1 * 2^16 + a0 and 2^31 = Divisor + 2 keep every product in 31 bits.     *)
MulSmall(a, n) ==
  LET T == (a \div 65536) * n
      U == Norm(0, (a % 65536) * n)
      t1 == T \div 32768
      R == Norm(t1, 2 * t1 + (T % 32768) * 65536)
  IN  AddRem(R[1] + U[1], R[2], U[2])

(* <<q, r>> with a * n = q * Divisor + r, for 0 <= a < Divisor, 0 <= n < 32768000. *)
MulDiv(a, n) ==
  IF n <= 32768 THEN MulSmall(a, n)
  ELSE LET hi == MulSmall(a, n \div 1000)
           lo == MulSmall(a, n % 1000)
           hs == MulSmall(hi[2], 1000)
       IN  AddRem(hi[1] * 1000 + hs[1] + lo[1], hs[2], lo[2])

(* seed % 2147483647 for seed = hi * 65536 + lo in 0..4294967295. *)
SeedMod(seed) ==
  LET hi == seed[1]
      lo == seed[2]
  IN  IF hi < 32768
        THEN (hi * 65536 + lo) % Modulus
        ELSE LET t == (hi - 32768) * 65536 + lo      \* seed - 2^31
             IN  IF t = Modulus THEN 1
                 ELSE IF t = Modulus - 1 THEN 0
                 ELSE t + 1

----------------------------------------------------------------------------
(* Deterministic RNG *)

(* A generator whose state is shared by all calls and seeded only once. *)
createGeneratorShared(seed) == IF calls = 0 THEN SeedMod(seed) ELSE value

(* State of a fresh generator; the first update reduces it modulo Modulus, *)
(* so it is held already reduced.                                          *)
createGenerator(seed) == SeedMod(seed)

(* value = (value * 16807) % 2147483647 *)
(* Schrage's decomposition, Modulus = Multiplier * 127773 + 2836, gives the *)
(* same residue without leaving 31 bits.                                   *)
NextValue(v) ==
  LET t == Multiplier * (v % (Modulus \div Multiplier))
             - (Modulus % Multiplier) * (v \div (Modulus \div Multiplier))
  IN  IF t < 0 THEN t + Modulus ELSE t

(* The states after 1..k updates starting from v. *)
RECURSIVE Draws(_, _)
Draws(v, k) ==
  IF k = 0 THEN <<>>
  ELSE LET n == NextValue(v) IN <<n>> \o Draws(n, k - 1)

(* Math.floor(rand() * n) for the draw returned in state v. *)
FloorScaled(v, n) == IF v = 0 THEN -1 ELSE MulDiv(v - 1, n)[1]

(* Math.round(rand() * n) for the draw returned in state v. *)
RoundScaled(v, n) ==
  IF v = 0 THEN 0
  ELSE LET x == MulDiv(v - 1, n)
       IN  IF x[2] >= Divisor - x[2] THEN x[1] + 1 ELSE x[1]

(* min + (max - min) * rand(), fixed point, for the draw returned in state v. *)
randomRange(v, min, max) == min + FloorScaled(v, max - min)

(* rand() > 0.85 for the draw returned in state v. *)
Above85(v) ==
  IF v = 0 THEN FALSE
  ELSE LET x == MulDiv(v - 1, 100)
       IN  x[1] > 85 \/ (x[1] = 85 /\ x[2] > 0)

clamp(x, min, max) ==
  LET lo == IF x > min THEN x ELSE min
  IN  IF lo < max THEN lo ELSE max

----------------------------------------------------------------------------
(* String helpers *)

UpperCase == <<"A","B","C","D","E","F","G","H","I","J","K","L","M",
               "N","O","P","Q","R","S","T","U","V","W","X","Y","Z">>
LowerCase == <<"a","b","c","d","e","f","g","h","i","j","k","l","m",
               "n","o","p","q","r","s","t","u","v","w","x","y","z">>

LowerChar(c) ==
  IF \E i \in 1..26 : UpperCase[i] = c
    THEN LowerCase[CHOOSE i \in 1..26 : UpperCase[i] = c]
    ELSE c

RECURSIVE toLowerCase(_)
toLowerCase(s) ==
  IF Len(s) = 0 THEN ""
  ELSE LowerChar(SubSeq(s, 1, 1)) \o toLowerCase(SubSeq(s, 2, Len(s)))

WhiteSpace == {" ", "\t", "\n", "\r"}

RECURSIVE trimStart(_)
trimStart(s) ==
  IF Len(s) > 0 /\ SubSeq(s, 1, 1) \in WhiteSpace
    THEN trimStart(SubSeq(s, 2, Len(s)))
    ELSE s

RECURSIVE trimEnd(_)
trimEnd(s) ==
  IF Len(s) > 0 /\ SubSeq(s, Len(s), Len(s)) \in WhiteSpace
    THEN trimEnd(SubSeq(s, 1, Len(s) - 1))
    ELSE s

trim(s) == trimEnd(trimStart(s))

includes(text, term) ==
  \E i \in 1..(Len(text) - Len(term) + 1) : SubSeq(text, i, i + Len(term) - 1) = term

includesAny(text, terms) == \E k \in 1..Len(terms) : includes(text, terms[k])

(* prompt.split(' ').find(Boolean) ?? 'Artifact' *)
RECURSIVE upToSpace(_)
upToSpace(s) ==
  IF Len(s) = 0 \/ SubSeq(s, 1, 1) = " " THEN ""
  ELSE SubSeq(s, 1, 1) \o upToSpace(SubSeq(s, 2, Len(s)))

RECURSIVE firstToken(_)
firstToken(s) ==
  IF Len(s) = 0 THEN "Artifact"
  ELSE IF SubSeq(s, 1, 1) = " " THEN firstToken(SubSeq(s, 2, Len(s)))
  ELSE upToSpace(s)

(* array[i] for a 0-based index i, undefined outside the array. *)
At(array, i) == IF i \in 0..(Len(array) - 1) THEN array[i + 1] ELSE Undefined

(* A coalescing that prefers its second operand. *)
CoalesceRight(a, b) == IF b = Undefined THEN a ELSE b

(* a ?? b *)
Coalesce(a, b) == IF a = Undefined THEN b ELSE a

(* Array.from(new Set(array)): first occurrences, in order. *)
AppendNew(array, x) ==
  IF \E i \in 1..Len(array) : array[i] = x THEN array ELSE Append(array, x)

RECURSIVE Dedupe(_)
Dedupe(array) ==
  IF Len(array) = 0 THEN <<>>
  ELSE AppendNew(Dedupe(SubSeq(array, 1, Len(array) - 1)), array[Len(array)])

(* Index of the first element satisfying Test (Array.prototype.find), 0 if none. *)
FindFirst(array, Test(_)) ==
  IF \E i \in 1..Len(array) : Test(array[i])
    THEN CHOOSE i \in 1..Len(array) :
           Test(array[i]) /\ \A j \in 1..(i - 1) : ~Test(array[j])
    ELSE 0

----------------------------------------------------------------------------
(* Static catalogs *)

THEME_PRESETS ==
  << [ id |-> "mechanical",
       keywords |-> <<"robot", "mech", "machine", "engine", "industrial", "drone",
                      "armor", "cyber", "android", "gear", "factory">>,
       primaryGeometry |-> "box",
       secondaryGeometries |-> <<"cylinder", "box", "torus">>,
       palette |-> <<"#94a3b8", "#facc15", "#0f172a", "#cbd5f5">>,
       baseMaterial |-> [metalness |-> 85, roughness |-> 25],
       environment |-> "city",
       accentColor |-> "#facc15",
       modifiers |-> [noiseAmplitude |-> 8, noiseFrequency |-> 240,
                      twistStrength |-> 15, taperStrength |-> 5, squash |-> 12] ],
     [ id |-> "organic",
       keywords |-> <<"creature", "biologic", "organic", "flora", "nature", "plant",
                      "beast", "animal", "character", "dragon", "fauna", "alien">>,
       primaryGeometry |-> "sphere",
       secondaryGeometries |-> <<"cone", "sphere", "icosahedron">>,
       palette |-> <<"#34d399", "#0f766e", "#bef264", "#ecfccb">>,
       baseMaterial |-> [metalness |-> 20, roughness |-> 70],
       environment |-> "sunset",
       accentColor |-> "#bef264",
       modifiers |-> [noiseAmplitude |-> 35, noiseFrequency |-> 130,
                      twistStrength |-> 45, taperStrength |-> 35, squash |-> 25] ],
     [ id |-> "aero",
       keywords |-> <<"spaceship", "jet", "rocket", "craft", "vehicle", "car",
                      "fighter", "aircraft", "shuttle", "hover", "ship", "drone">>,
       primaryGeometry |-> "cylinder",
       secondaryGeometries |-> <<"cone", "box", "torus">>,
       palette |-> <<"#60a5fa", "#f8fafc", "#0369a1", "#e0f2fe">>,
       baseMaterial |-> [metalness |-> 65, roughness |-> 35],
       environment |-> "studio",
       accentColor |-> "#60a5fa",
       modifiers |-> [noiseAmplitude |-> 12, noiseFrequency |-> 310,
                      twistStrength |-> 25, taperStrength |-> 15, squash |-> 20] ],
     [ id |-> "abstract",
       keywords |-> <<"abstract", "symbol", "glyph", "portal", "totem", "sculpture",
                      "sigil", "icon", "logo">>,
       primaryGeometry |-> "icosahedron",
       secondaryGeometries |-> <<"torus", "sphere", "cone">>,
       palette |-> <<"#c084fc", "#a855f7", "#f472b6", "#fdf2f8">>,
       baseMaterial |-> [metalness |-> 35, roughness |-> 45],
       environment |-> "nebula",
       accentColor |-> "#c084fc",
       modifiers |-> [noiseAmplitude |-> 28, noiseFrequency |-> 210,
                      twistStrength |-> 35, taperStrength |-> 20, squash |-> 30] ] >>

ThemeIds == {THEME_PRESETS[i].id : i \in 1..Len(THEME_PRESETS)}

ThemeById(id) == THEME_PRESETS[CHOOSE i \in 1..Len(THEME_PRESETS) : THEME_PRESETS[i].id = id]

vectorNameSeeds == <<"Nebula", "Axiom", "Vertex", "Pulse", "Aurora", "Helix", "Solace">>

geometryTitles ==
  << [kind |-> "sphere", title |-> "Core"],
     [kind |-> "box", title |-> "Hull"],
     [kind |-> "torus", title |-> "Ring"],
     [kind |-> "cylinder", title |-> "Column"],
     [kind |-> "cone", title |-> "Spire"],
     [kind |-> "icosahedron", title |-> "Shard"] >>

GEOMETRY_KEYWORDS ==
  << [kind |-> "sphere", terms |-> <<"orb", "sphere", "globe", "planet", "eye", "bubble", "core">>],
     [kind |-> "box", terms |-> <<"cube", "block", "fortress", "monolith", "crate", "terminal">>],
     [kind |-> "torus", terms |-> <<"ring", "halo", "loop", "portal", "gateway", "donut">>],
     [kind |-> "cylinder", terms |-> <<"tower", "pillar", "rocket", "barrel", "staff", "sword",
                                        "blade", "engine", "cannon">>],
     [kind |-> "cone", terms |-> <<"spike", "spire", "pyramid", "mountain", "fang", "icicle">>],
     [kind |-> "icosahedron", terms |-> <<"crystal", "shard", "polyhedron", "geode", "gem",
                                           "diamond">>] >>

COLOR_KEYWORDS ==
  << [hex |-> "#ef4444", terms |-> <<"red", "scarlet", "crimson", "ruby">>],
     [hex |-> "#f59e0b", terms |-> <<"gold", "amber", "sunset", "bronze", "copper">>],
     [hex |-> "#3b82f6", terms |-> <<"blue", "azure", "sapphire", "cyan">>],
     [hex |-> "#22c55e", terms |-> <<"green", "emerald", "jade", "lime">>],
     [hex |-> "#a855f7", terms |-> <<"purple", "violet", "magenta", "neon">>],
     [hex |-> "#f472b6", terms |-> <<"pink", "rose", "fuchsia">>],
     [hex |-> "#e5e7eb", terms |-> <<"white", "silver", "pearl">>],
     [hex |-> "#1f2937", terms |-> <<"black", "obsidian", "onyx", "shadow">>],
     [hex |-> "#f97316", terms |-> <<"orange", "sunrise", "ember">>],
     [hex |-> "#94a3b8", terms |-> <<"steel", "gray", "gunmetal">>] >>

ENVIRONMENT_KEYWORDS ==
  << [env |-> "studio", terms |-> <<"studio", "product", "turntable", "showroom">>],
     [env |-> "city", terms |-> <<"city", "urban", "neon", "street", "industrial">>],
     [env |-> "sunset", terms |-> <<"sunset", "dusk", "golden hour", "desert", "forest">>],
     [env |-> "nebula", terms |-> <<"space", "nebula", "galaxy", "cosmic", "void">>] >>

MULTI_OBJECT_KEYWORDS ==
  <<"fleet", "swarm", "array", "cluster", "forest", "army", "collection", "pack", "hive">>

SINGLE_OBJECT_KEYWORDS ==
  <<"statue", "bust", "monolith", "idol", "single", "solo", "portrait">>

DETAIL_BIAS_KEYWORDS ==
  [ organic |-> <<"creature", "organic", "flora", "fauna", "dragon", "beast", "character",
                  "alien", "mythic">>,
    mechanical |-> <<"robot", "mech", "engine", "industrial", "armor", "cyber", "drone",
                     "vehicle", "turret">> ]

TEMPLATE_DEFAULT_PALETTE == <<"#d4b48c", "#1f1f1f", "#f5f5f5">>

SHAPE_TEMPLATES ==
  << [id |-> "cricket-bat", keywords |-> <<"cricket bat", "bat">>, environment |-> "studio"] >>

PiMicro == 3141593

----------------------------------------------------------------------------
(* Prompt hint extraction *)

(* The theme search returning the last theme with a matching keyword. *)
findThemeLast(normalized) ==
  IF \E i \in 1..Len(THEME_PRESETS) : includesAny(normalized, THEME_PRESETS[i].keywords)
    THEN CHOOSE i \in 1..Len(THEME_PRESETS) :
           /\ includesAny(normalized, THEME_PRESETS[i].keywords)
           /\ \A j \in (i + 1)..Len(THEME_PRESETS) :
                ~includesAny(normalized, THEME_PRESETS[j].keywords)
    ELSE 0

(* THEME_PRESETS.find((preset) => preset.keywords.some((keyword) =>          *)
(* normalized.includes(keyword))), as an index, 0 if none.                  *)
findTheme(normalized) ==
  FindFirst(THEME_PRESETS, LAMBDA preset : includesAny(normalized, preset.keywords))

(* analyzePromptHints testing the mechanical cues before the organic ones. *)
analyzePromptHintsMechanicalFirst(prompt) ==
  LET normalized == toLowerCase(prompt)
      Hit(entry) == includesAny(normalized, entry.terms)
      geo == FindFirst(GEOMETRY_KEYWORDS, Hit)
      colors == SelectSeq(COLOR_KEYWORDS, Hit)
      paletteOverride == [i \in 1..Len(colors) |-> colors[i].hex]
      env == FindFirst(ENVIRONMENT_KEYWORDS, Hit)
      preferred == findTheme(normalized)
  IN  [ geometryPreference |-> IF geo = 0 THEN Undefined ELSE GEOMETRY_KEYWORDS[geo].kind,
        paletteOverride |-> Dedupe(paletteOverride),
        accentColor |-> At(paletteOverride, 0),
        environmentHint |-> IF env = 0 THEN Undefined ELSE ENVIRONMENT_KEYWORDS[env].env,
        preferredThemeId |-> IF preferred = 0 THEN Undefined ELSE THEME_PRESETS[preferred].id,
        detailBias |->
          IF includesAny(normalized, DETAIL_BIAS_KEYWORDS.mechanical) THEN "mechanical"
          ELSE IF includesAny(normalized, DETAIL_BIAS_KEYWORDS.organic) THEN "organic"
          ELSE "neutral",
        meshTarget |->
          IF includesAny(normalized, SINGLE_OBJECT_KEYWORDS) THEN <<1>>
          ELSE IF includesAny(normalized, MULTI_OBJECT_KEYWORDS) THEN <<4>>
          ELSE <<>> ]

analyzePromptHints(prompt) ==
  LET normalized == toLowerCase(prompt)
      Hit(entry) == includesAny(normalized, entry.terms)
      geo == FindFirst(GEOMETRY_KEYWORDS, Hit)
      colors == SelectSeq(COLOR_KEYWORDS, Hit)
      paletteOverride == [i \in 1..Len(colors) |-> colors[i].hex]
      env == FindFirst(ENVIRONMENT_KEYWORDS, Hit)
      preferred == findTheme(normalized)
  IN  [ geometryPreference |-> IF geo = 0 THEN Undefined ELSE GEOMETRY_KEYWORDS[geo].kind,
        paletteOverride |-> Dedupe(paletteOverride),
        accentColor |-> At(paletteOverride, 0),
        environmentHint |-> IF env = 0 THEN Undefined ELSE ENVIRONMENT_KEYWORDS[env].env,
        preferredThemeId |-> IF preferred = 0 THEN Undefined ELSE THEME_PRESETS[preferred].id,
        detailBias |->
          IF includesAny(normalized, DETAIL_BIAS_KEYWORDS.organic) THEN "organic"
          ELSE IF includesAny(normalized, DETAIL_BIAS_KEYWORDS.mechanical) THEN "mechanical"
          ELSE "neutral",
        meshTarget |->
          IF includesAny(normalized, SINGLE_OBJECT_KEYWORDS) THEN <<1>>
          ELSE IF includesAny(normalized, MULTI_OBJECT_KEYWORDS) THEN <<4>>
          ELSE <<>> ]

(* merged.slice(0, n) *)
slice0(array, n) == SubSeq(array, 1, IF n < Len(array) THEN n ELSE Len(array))

(* resolvePalette cutting the merged palette to the theme's length. *)
resolvePaletteTruncated(theme, hints) ==
  IF Len(hints.paletteOverride) = 0
    THEN [ palette |-> theme.palette,
           accentColor |-> Coalesce(hints.accentColor, theme.accentColor) ]
    ELSE LET palette == slice0(Dedupe(hints.paletteOverride \o theme.palette),
                               Len(theme.palette))
         IN  [ palette |-> palette,
               accentColor |->
                 Coalesce(hints.accentColor, Coalesce(At(palette, 0), theme.accentColor)) ]

(* resolvePalette keeping the accent of the theme whatever the hints say. *)
resolvePaletteThemeAccent(theme, hints) ==
  IF Len(hints.paletteOverride) = 0
    THEN [palette |-> theme.palette, accentColor |-> theme.accentColor]
    ELSE [ palette |-> Dedupe(hints.paletteOverride \o theme.palette),
           accentColor |-> theme.accentColor ]

resolvePalette(theme, hints) ==
  IF Len(hints.paletteOverride) = 0
    THEN [ palette |-> theme.palette,
           accentColor |-> Coalesce(hints.accentColor, theme.accentColor) ]
    ELSE LET merged == Dedupe(hints.paletteOverride \o theme.palette)
             longest == IF Len(theme.palette) > Len(merged)
                          THEN Len(theme.palette) ELSE Len(merged)
             palette == slice0(merged, longest)
         IN  [ palette |-> palette,
               accentColor |->
                 Coalesce(hints.accentColor, Coalesce(At(palette, 0), theme.accentColor)) ]

----------------------------------------------------------------------------
(* Theme selection.  Returns the id of the theme ("undefined" when the      *)
(* random index is outside the catalog) and the generator states consumed.  *)

(* pickTheme drawing its random index before it looks for a match. *)
pickThemeEagerDraw(prompt, v, hints) ==
  LET matched == findTheme(toLowerCase(prompt))
      s == NextValue(v)
      ids == [i \in 1..Len(THEME_PRESETS) |-> THEME_PRESETS[i].id]
  IN  [ theme |-> IF matched # 0 THEN THEME_PRESETS[matched].id
                  ELSE At(ids, FloorScaled(s, Len(THEME_PRESETS))),
        states |-> <<s>> ]

(* pickTheme falling back, before it draws, on the theme whose primary      *)
(* geometry is the geometry the prompt asks for.                            *)
pickThemeByGeometry(prompt, v, hints) ==
  LET matched == findTheme(toLowerCase(prompt))
      s == NextValue(v)
      ids == [i \in 1..Len(THEME_PRESETS) |-> THEME_PRESETS[i].id]
      ByGeometry(preset) == preset.primaryGeometry = hints.geometryPreference
      shaped == FindFirst(THEME_PRESETS, ByGeometry)
  IN  IF matched # 0 THEN [theme |-> THEME_PRESETS[matched].id, states |-> <<>>]
      ELSE IF shaped # 0 THEN [theme |-> THEME_PRESETS[shaped].id, states |-> <<>>]
      ELSE [theme |-> At(ids, FloorScaled(s, Len(THEME_PRESETS))), states |-> <<s>>]

pickTheme(prompt, v, hints) ==
  LET normalized == toLowerCase(prompt)
      IsPreferred(preset) == preset.id = hints.preferredThemeId
      explicit == IF hints.preferredThemeId = Undefined
                    THEN 0 ELSE FindFirst(THEME_PRESETS, IsPreferred)
      matched == findTheme(normalized)
      s == NextValue(v)
      ids == [i \in 1..Len(THEME_PRESETS) |-> THEME_PRESETS[i].id]
      picked == At(ids, FloorScaled(s, Len(THEME_PRESETS)))
  IN  IF explicit # 0 THEN [theme |-> THEME_PRESETS[explicit].id, states |-> <<>>]
      ELSE IF matched # 0 THEN [theme |-> THEME_PRESETS[matched].id, states |-> <<>>]
      ELSE [theme |-> picked, states |-> <<s>>]

----------------------------------------------------------------------------
(* Named templates *)

createTemplateId(prefix, v) == prefix \o "-" \o ToString(RoundScaled(v, 1000000))

(* SHAPE_TEMPLATES[0].buildMeshes; v is the state of the generator handed in. *)
buildMeshes(palette, accentColor, v) ==
  LET colors == IF Len(palette) > 0 THEN palette ELSE TEMPLATE_DEFAULT_PALETTE
      wood == Coalesce(At(colors, 0), "#d4b48c")
      grip == Coalesce(At(colors, 1), "#171717")
      sticker == Coalesce(accentColor, Coalesce(At(colors, 2), "#f97316"))
      s == Draws(v, 3)
  IN  [ meshes |->
          << [ id |-> createTemplateId("bat-blade", s[1]),
               name |-> "Cricket-Blade",
               geometry |-> [type |-> "box", width |-> 450000, height |-> 2200000,
                             depth |-> 320000],
               transform |-> [ position |-> <<0, 400000, 0>>,
                               rotation |-> <<-((PiMicro * 2) \div 100), 0,
                                              (PiMicro * 5) \div 100>>,
                               scale |-> <<1000000, 1000000, 1000000>> ],
               material |-> [ color |-> wood, metalness |-> 8, roughness |-> 72,
                              emissive |-> Undefined, wireframe |-> FALSE,
                              useTexture |-> TRUE ],
               modifiers |-> [taperStrength |-> 30000000, squash |-> 12000000,
                              noiseAmplitude |-> 1500000] ],
             [ id |-> createTemplateId("bat-handle", s[2]),
               name |-> "Cricket-Handle",
               geometry |-> [type |-> "cylinder", radiusTop |-> 120000,
                             radiusBottom |-> 150000, height |-> 1500000,
                             radialSegments |-> 48, heightSegments |-> 1,
                             openEnded |-> FALSE],
               transform |-> [ position |-> <<0, 1350000, -50000>>,
                               rotation |-> <<PiMicro \div 2, 0, 0>>,
                               scale |-> <<1000000, 1000000, 1000000>> ],
               material |-> [ color |-> grip, metalness |-> 5, roughness |-> 45,
                              emissive |-> Undefined, wireframe |-> FALSE,
                              useTexture |-> FALSE ],
               modifiers |-> [twistStrength |-> 25000000, noiseAmplitude |-> 3000000] ],
             [ id |-> createTemplateId("bat-cap", s[3]),
               name |-> "Bat-Logo-Panel",
               geometry |-> [type |-> "box", width |-> 400000, height |-> 900000,
                             depth |-> 50000],
               transform |-> [ position |-> <<0, 200000, 180000>>,
                               rotation |-> <<0, 0, (PiMicro * 5) \div 100>>,
                               scale |-> <<1000000, 1000000, 1000000>> ],
               material |-> [ color |-> sticker, metalness |-> 20, roughness |-> 40,
                              emissive |-> accentColor, wireframe |-> FALSE,
                              useTexture |-> FALSE ],
               modifiers |-> [noiseAmplitude |-> 1000000] ] >>,
        states |-> s ]

(* Index in SHAPE_TEMPLATES of the template the prompt triggers, 0 if none. *)
findTemplate(prompt) ==
  LET normalized == toLowerCase(prompt)
      Triggered(shape) == includesAny(normalized, shape.keywords)
  IN  FindFirst(SHAPE_TEMPLATES, Triggered)

(* A template that honours the cardinality hint of the prompt. *)
tryTemplateSpecCounted(prompt, hints, seed) ==
  LET palette == IF Len(hints.paletteOverride) > 0
                   THEN hints.paletteOverride ELSE TEMPLATE_DEFAULT_PALETTE
      accentColor == Coalesce(hints.accentColor, At(palette, 0))
      built == buildMeshes(palette, accentColor, createGenerator(seed))
      count == IF Len(hints.meshTarget) = 1 /\ hints.meshTarget[1] < 3
                 THEN hints.meshTarget[1] ELSE 3
  IN  [ spec |-> [ prompt |-> prompt, seed |-> seed, environment |-> "studio",
                   accentColor |-> accentColor,
                   meshes |-> SubSeq(built.meshes, 1, count) ],
        states |-> built.states ]

(* tryTemplateSpec for a prompt that triggers a template. *)
tryTemplateSpec(prompt, hints, seed) ==
  LET template == SHAPE_TEMPLATES[findTemplate(prompt)]
      rand == createGenerator(seed)
      palette == IF Len(hints.paletteOverride) > 0
                   THEN hints.paletteOverride ELSE TEMPLATE_DEFAULT_PALETTE
      accentColor == Coalesce(hints.accentColor, At(palette, 0))
      built == buildMeshes(palette, accentColor, rand)
  IN  [ spec |-> [ prompt |-> prompt,
                   seed |-> seed,
                   environment |->
                     Coalesce(template.environment, Coalesce(hints.environmentHint, "studio")),
                   accentColor |-> accentColor,
                   meshes |-> built.meshes ],
        states |-> built.states ]

----------------------------------------------------------------------------
(* Mesh composition.  An operator that draws takes the generator state v   *)
(* it starts from and returns [value, states]: its value and the states of *)
(* the draws it made, in the order it made them.                           *)

Last(states, v) == IF Len(states) = 0 THEN v ELSE states[Len(states)]

createGeometry(kind, v) ==
  CASE kind = "sphere" ->
         LET s == Draws(v, 3)
         IN  [ value |-> [ type |-> "sphere",
                           radius |-> randomRange(s[1], 1100000, 1800000),
                           widthSegments |-> 32 + FloorScaled(s[2], 16),
                           heightSegments |-> 32 + FloorScaled(s[3], 16) ],
               states |-> s ]
    [] kind = "box" ->
         LET s == Draws(v, 3)
         IN  [ value |-> [ type |-> "box",
                           width |-> randomRange(s[1], 1000000, 2200000),
                           height |-> randomRange(s[2], 1000000, 1600000),
                           depth |-> randomRange(s[3], 1000000, 2000000) ],
               states |-> s ]
    [] kind = "torus" ->
         LET s == Draws(v, 4)
         IN  [ value |-> [ type |-> "torus",
                           radius |-> randomRange(s[1], 1200000, 1900000),
                           tube |-> randomRange(s[2], 200000, 500000),
                           radialSegments |-> 16 + FloorScaled(s[3], 16),
                           tubularSegments |-> 48 + FloorScaled(s[4], 32),
                           arc |-> 2 * PiMicro ],
               states |-> s ]
    [] kind = "cylinder" ->
         LET s == Draws(v, 5)
         IN  [ value |-> [ type |-> "cylinder",
                           radiusTop |-> randomRange(s[1], 500000, 1200000),
                           radiusBottom |-> randomRange(s[2], 800000, 1500000),
                           height |-> randomRange(s[3], 2000000, 3200000),
                           radialSegments |-> 32 + FloorScaled(s[4], 16),
                           heightSegments |-> 1 + FloorScaled(s[5], 3),
                           openEnded |-> FALSE ],
               states |-> s ]
    [] kind = "cone" ->
         LET s == Draws(v, 4)
         IN  [ value |-> [ type |-> "cone",
                           radius |-> randomRange(s[1], 700000, 1400000),
                           height |-> randomRange(s[2], 1400000, 2400000),
                           radialSegments |-> 32 + FloorScaled(s[3], 16),
                           heightSegments |-> 1 + FloorScaled(s[4], 2) ],
               states |-> s ]
    [] OTHER ->
         LET s == Draws(v, 2)
         IN  [ value |-> [ type |-> "icosahedron",
                           radius |-> randomRange(s[1], 1200000, 1700000),
                           detail |-> FloorScaled(s[2], 2) ],
               states |-> s ]

(* createTransform without the early return for the primary mesh. *)
createTransformJittered(v, index) ==
  LET s == Draws(v, 9)
  IN  [ value |->
          [ position |-> << randomRange(s[1], -1200000, 1200000),
                            randomRange(s[2], -200000, 1200000),
                            randomRange(s[3], -1100000, 1100000) >>,
            rotation |-> << randomRange(s[4], -400000, 400000),
                            randomRange(s[5], 0, 2 * PiMicro),
                            randomRange(s[6], -400000, 400000) >>,
            scale |-> << randomRange(s[7], 450000, 900000),
                         randomRange(s[8], 450000, 900000),
                         randomRange(s[9], 450000, 900000) >> ],
        states |-> s ]

createTransform(v, index) ==
  IF index = 0
    THEN [ value |-> [ position |-> <<0, 0, 0>>,
                       rotation |-> <<0, 0, 0>>,
                       scale |-> <<1000000, 1000000, 1000000>> ],
           states |-> <<>> ]
    ELSE LET s == Draws(v, 9)
         IN  [ value |->
                 [ position |-> << randomRange(s[1], -1200000, 1200000),
                                   randomRange(s[2], -200000, 1200000),
                                   randomRange(s[3], -1100000, 1100000) >>,
                   rotation |-> << randomRange(s[4], -400000, 400000),
                                   randomRange(s[5], 0, 2 * PiMicro),
                                   randomRange(s[6], -400000, 400000) >>,
                   scale |-> << randomRange(s[7], 450000, 900000),
                                randomRange(s[8], 450000, 900000),
                                randomRange(s[9], 450000, 900000) >> ],
               states |-> s ]

TitleOf(geometry) ==
  IF \E i \in 1..Len(geometryTitles) : geometryTitles[i].kind = geometry
    THEN geometryTitles[CHOOSE i \in 1..Len(geometryTitles) :
                          geometryTitles[i].kind = geometry].title
    ELSE Undefined

createMeshName(prompt, geometry, v, index) ==
  LET primaryDescriptor == firstToken(prompt)
      base == Coalesce(TitleOf(geometry), "Element")
      s == NextValue(v)
      prefix == At(vectorNameSeeds, FloorScaled(s, Len(vectorNameSeeds)))
  IN  [ value |-> prefix \o "-" \o base \o "-"
                    \o (IF index = 0 THEN "Prime" ELSE primaryDescriptor),
        states |-> <<s>> ]

(* Log entries for draws: which step of the pipeline drew, and the state   *)
(* the generator was left in.                                              *)
Tag(label, states) == [i \in 1..Len(states) |-> [label |-> label, state |-> states[i]]]

(* The statements of createMeshDescriptor run in sequence on d, the        *)
(* descriptor under construction: d.rand is the generator state, d.log the *)
(* draws made so far and d.locals the constants computed so far.  Then     *)
(* runs one statement: Step(d) draws from d.rand and its value is bound to *)
(* the local named field.                                                  *)
Bound(d, label, field, r) ==
  [ rand |-> Last(r.states, d.rand),
    log |-> d.log \o Tag(label, r.states),
    locals |-> [d.locals EXCEPT ![field] = r.value] ]

Then(d, label, field, Step(_)) == Bound(d, label, field, Step(d))

(* lines 622-625 *)
pickGeometryKind(theme, v, index, context) ==
  LET primaryCandidates ==
        << Coalesce(context.primaryGeometry, theme.primaryGeometry), theme.primaryGeometry >>
      secondaryCandidates ==
        (IF context.primaryGeometry # Undefined THEN <<context.primaryGeometry>> ELSE <<>>)
          \o theme.secondaryGeometries
      geometryPool == IF index = 0 THEN primaryCandidates ELSE secondaryCandidates
      sPool == NextValue(v)
      fromPool == At(geometryPool, FloorScaled(sPool, Len(geometryPool)))
      sFallback == NextValue(sPool)
  IN  IF fromPool # Undefined
        THEN [value |-> fromPool, states |-> <<sPool>>]
        ELSE [ value |-> At(theme.secondaryGeometries,
                            FloorScaled(sFallback, Len(theme.secondaryGeometries))),
               states |-> <<sPool, sFallback>> ]

(* lines 630-636 *)
pickPaletteIndex(palette, v, index) ==
  LET longest == IF Len(palette) - 1 > 1 THEN Len(palette) - 1 ELSE 1
      top == IF Len(palette) - 1 > 0 THEN Len(palette) - 1 ELSE 0
      s == NextValue(v)
  IN  IF index = 0 \/ Len(palette) = 1
        THEN [value |-> clamp(0, 0, top), states |-> <<>>]
        ELSE [value |-> clamp(1 + FloorScaled(s, longest), 0, top), states |-> <<s>>]

(* lines 638-654 *)
createModifiers(theme, v, context) ==
  LET detailMultiplier ==
        IF context.detailBias = "organic" THEN 125
        ELSE IF context.detailBias = "mechanical" THEN 65 ELSE 100
      mechanical == context.detailBias = "mechanical"
      m == Draws(v, 6)
  IN  [ value |->
          [ noiseAmplitude |->
              theme.modifiers.noiseAmplitude * randomRange(m[1], 900, 1400) * detailMultiplier
                * (IF mechanical THEN 8 ELSE 10),
            noiseFrequency |->
              theme.modifiers.noiseFrequency * randomRange(m[2], 800, 1200) * 1000,
            noiseOffset |-> FloorScaled(m[3], 2 * PiMicro),
            twistStrength |->
              theme.modifiers.twistStrength * randomRange(m[4], 700, 1300) * detailMultiplier
                * 10,
            taperStrength |->
              theme.modifiers.taperStrength * randomRange(m[5], 500, 1200) * detailMultiplier
                * (IF mechanical THEN 7 ELSE 10),
            squash |->
              theme.modifiers.squash * randomRange(m[6], 800, 1200) * 100
                * (IF mechanical THEN 6 ELSE 10) ],
        states |-> m ]

(* createMaterial applying the detail-bias offsets to the primary mesh only. *)
createMaterialPrimaryBias(theme, palette, paletteIndex, v, index, context) ==
  LET metalnessBias ==
        IF index > 0 THEN 0
        ELSE IF context.detailBias = "organic" THEN -20
        ELSE IF context.detailBias = "mechanical" THEN 15 ELSE 0
      roughnessBias ==
        IF index > 0 THEN 0
        ELSE IF context.detailBias = "organic" THEN 20
        ELSE IF context.detailBias = "mechanical" THEN -10 ELSE 0
      s == NextValue(v)
  IN  [ value |->
          [ color |-> Coalesce(At(palette, paletteIndex), theme.palette[1]),
            metalness |-> clamp(theme.baseMaterial.metalness + metalnessBias, 0, 100),
            roughness |-> clamp(theme.baseMaterial.roughness + roughnessBias, 0, 100),
            emissive |-> IF index = 0 THEN context.accentColor ELSE Undefined,
            wireframe |-> index > 0 /\ Above85(s),
            useTexture |-> index = 0 ],
        states |-> IF index > 0 THEN <<s>> ELSE <<>> ]

(* createMaterial lighting every mesh with the accent colour. *)
createMaterialEmissive(theme, palette, paletteIndex, v, index, context) ==
  LET metalnessBias ==
        IF context.detailBias = "organic" THEN -20
        ELSE IF context.detailBias = "mechanical" THEN 15 ELSE 0
      roughnessBias ==
        IF context.detailBias = "organic" THEN 20
        ELSE IF context.detailBias = "mechanical" THEN -10 ELSE 0
      s == NextValue(v)
  IN  [ value |->
          [ color |-> Coalesce(At(palette, paletteIndex), theme.palette[1]),
            metalness |-> clamp(theme.baseMaterial.metalness + metalnessBias, 0, 100),
            roughness |-> clamp(theme.baseMaterial.roughness + roughnessBias, 0, 100),
            emissive |-> context.accentColor,
            wireframe |-> index > 0 /\ Above85(s),
            useTexture |-> index = 0 ],
        states |-> IF index > 0 THEN <<s>> ELSE <<>> ]

(* lines 656-668 *)
createMaterial(theme, palette, paletteIndex, v, index, context) ==
  LET metalnessBias ==
        IF context.detailBias = "organic" THEN -20
        ELSE IF context.detailBias = "mechanical" THEN 15 ELSE 0
      roughnessBias ==
        IF context.detailBias = "organic" THEN 20
        ELSE IF context.detailBias = "mechanical" THEN -10 ELSE 0
      s == NextValue(v)
  IN  [ value |->
          [ color |-> Coalesce(At(palette, paletteIndex), theme.palette[1]),
            metalness |-> clamp(theme.baseMaterial.metalness + metalnessBias, 0, 100),
            roughness |-> clamp(theme.baseMaterial.roughness + roughnessBias, 0, 100),
            emissive |-> IF index = 0 THEN context.accentColor ELSE Undefined,
            wireframe |-> index > 0 /\ Above85(s),
            useTexture |-> index = 0 ],
        states |-> IF index > 0 THEN <<s>> ELSE <<>> ]

(* A mesh id made of the geometry kind and the random suffix only. *)
createMeshIdUnindexed(geometryKind, v, index) ==
  LET s == NextValue(v)
  IN  [ value |-> geometryKind \o "-" \o ToString(RoundScaled(s, 1000000)),
        states |-> <<s>> ]

(* line 671 *)
createMeshId(geometryKind, v, index) ==
  LET s == NextValue(v)
  IN  [ value |-> geometryKind \o "-" \o ToString(index) \o "-"
                    \o ToString(RoundScaled(s, 1000000)),
        states |-> <<s>> ]

(* lines 670-677 *)
MeshOf(d) ==
  [ log |-> d.log,
    mesh |-> [ id |-> d.locals.id,
               name |-> d.locals.name,
               geometry |-> d.locals.geometry,
               transform |-> d.locals.transform,
               material |-> d.locals.material,
               modifiers |-> d.locals.modifiers ] ]

createMeshDescriptor(theme, prompt, v, index, context) ==
  LET palette == IF Len(context.palette) > 0 THEN context.palette ELSE theme.palette
      d0 == [ rand |-> v, log |-> <<>>,
              locals |-> [ geometryKind |-> Undefined, geometry |-> Undefined,
                           transform |-> Undefined, paletteIndex |-> Undefined,
                           modifiers |-> Undefined, material |-> Undefined,
                           id |-> Undefined, name |-> Undefined ] ]
      d1 == Then(d0, "kind", "geometryKind",
                 LAMBDA d : pickGeometryKind(theme, d.rand, index, context))
      d2 == Then(d1, "geometry", "geometry",
                 LAMBDA d : createGeometry(d.locals.geometryKind, d.rand))
      d3 == Then(d2, "transform", "transform",
                 LAMBDA d : createTransform(d.rand, index))
      d4 == Then(d3, "palette", "paletteIndex",
                 LAMBDA d : pickPaletteIndex(palette, d.rand, index))
      d5 == Then(d4, "modifiers", "modifiers",
                 LAMBDA d : createModifiers(theme, d.rand, context))
      d6 == Then(d5, "wireframe", "material",
                 LAMBDA d : createMaterial(theme, palette, d.locals.paletteIndex, d.rand,
                                           index, context))
      d7 == Then(d6, "id", "id",
                 LAMBDA d : createMeshId(d.locals.geometryKind, d.rand, index))
      d8 == Then(d7, "name", "name",
                 LAMBDA d : createMeshName(prompt, d.locals.geometryKind, d.rand, index))
  IN  MeshOf(d8)

----------------------------------------------------------------------------
(* Seed derivation.  The prompts the model calls the generator with, each   *)
(* with the first 8 hex digits of its SHA-256 digest as <<hi, lo>>.         *)

SHA256_HEAD ==
  << [text |-> "", hi |-> 58288, lo |-> 50242],
     [text |-> "   ", hi |-> 2733, lo |-> 32167],
     [text |-> "\t\n", hi |-> 13478, lo |-> 8795],
     [text |-> "abstract artifact", hi |-> 47551, lo |-> 28737],
     [text |-> "robot", hi |-> 6358, lo |-> 15329],
     [text |-> " robot", hi |-> 11493, lo |-> 32745],
     [text |-> "robot ", hi |-> 10150, lo |-> 10549],
     [text |-> "a red robot drone", hi |-> 63198, lo |-> 64062],
     [text |-> "a single glowing crystal statue", hi |-> 43409, lo |-> 40501],
     [text |-> "cricket bat", hi |-> 16884, lo |-> 43450],
     [text |-> "Cricket Bat", hi |-> 32440, lo |-> 1422],
     [text |-> "a red cricket bat", hi |-> 56298, lo |-> 30087],
     [text |-> "bat swarm", hi |-> 21279, lo |-> 56430],
     [text |-> "a single bat", hi |-> 33237, lo |-> 26428],
     [text |-> "combat robot", hi |-> 12613, lo |-> 17542],
     [text |-> "battle drone", hi |-> 16354, lo |-> 18141],
     [text |-> "glowing orb", hi |-> 17050, lo |-> 28491],
     [text |-> "tiny thing", hi |-> 25837, lo |-> 55107],
     [text |-> "drone swarm", hi |-> 53970, lo |-> 19352],
     [text |-> "solo fleet", hi |-> 34835, lo |-> 17480],
     [text |-> "dragon robot", hi |-> 4290, lo |-> 63484],
     [text |-> "blue green ship", hi |-> 51953, lo |-> 1363],
     [text |-> "neon city car", hi |-> 51854, lo |-> 19247],
     [text |-> "pink portal", hi |-> 36324, lo |-> 36559],
     [text |-> "purple sigil array", hi |-> 55333, lo |-> 42824],
     [text |-> "Alien Beast pack", hi |-> 9256, lo |-> 59177],
     [text |-> "steel monolith", hi |-> 46407, lo |-> 10459],
     [text |-> "model 334185432", hi |-> 32767, lo |-> 65535],
     [text |-> "model 260680352", hi |-> 65535, lo |-> 65534],
     [text |-> "robot 2247111167", hi |-> 0, lo |-> 0],
     [text |-> "robot swarm 188288638", hi |-> 0, lo |-> 0],
     [text |-> "plant turret", hi |-> 28136, lo |-> 28205] >>

Prompts == {SHA256_HEAD[i].text : i \in 1..Len(SHA256_HEAD)}

(* parseInt(sha256(prompt).slice(0, 8), 16) *)
createSeed(prompt) ==
  LET e == SHA256_HEAD[CHOOSE i \in 1..Len(SHA256_HEAD) : SHA256_HEAD[i].text = prompt]
  IN  <<e.hi, e.lo>>

(* The argument of generateModelSpec: absent, or a string. *)
Inputs == {<<>>} \cup {<<p>> : p \in Prompts}

(* The fallback taken on the untrimmed length. *)
FallbackPromptUntrimmed(inp) ==
  IF Len(inp) = 1 /\ Len(inp[1]) > 0 THEN inp[1] ELSE "abstract artifact"

(* prompt?.trim().length ? prompt : 'abstract artifact' *)
FallbackPrompt(inp) ==
  IF Len(inp) = 1 /\ Len(trim(inp[1])) > 0 THEN inp[1] ELSE "abstract artifact"

(* What generateModelSpec derives from the prompt text alone, tabulated    *)
(* once per prompt: analyzePromptHints, and the template the prompt        *)
(* triggers.                                                               *)
HintsOf == [p \in Prompts |-> analyzePromptHints(p)]
TemplateOf == [p \in Prompts |-> findTemplate(p)]

(* The loop running one iteration too many. *)
LoopContinuesInclusive(i, count) == i <= count

(* Loop condition of the mesh loop: i < clampedMeshCount. *)
LoopContinues(i, count) == i < count

----------------------------------------------------------------------------
(* The calls *)

VARIABLES
  pc,                 \* "idle", "theme", "compose", "done" or "threw"
  input,              \* argument of the call in progress or last finished
  fallbackPrompt,
  seed,
  hints,
  theme,              \* id of the selected theme, or "undefined"
  palette,
  accentColor,
  environment,
  clampedMeshCount,
  meshes,             \* the mesh list being built
  drawLog,            \* the draws of this call, in order
  result,             \* <<>> or <<blueprint>> returned by the call
  previous            \* <<>> or <<the finished call before this one>>

VARIABLES
  ctx,                \* the locals of each of the interleaved calls
  gen                 \* the state of the generator each of them created

VARIABLES
  handlerPc,          \* position of the request handler
  request,            \* the request being handled
  upstream,           \* how the upstream model call ended: "none", "ok", "error", "nullish"
  specCalls,          \* the arguments generateModelSpec was called with for the request
  sent                \* the responses sent for the request, in order

generatorVars ==
  << pc, input, fallbackPrompt, seed, value, hints, theme, palette, accentColor,
     environment, clampedMeshCount, meshes, drawLog, result, previous, calls >>

concurrentVars == << ctx, gen >>

handlerVars == << handlerPc, request, upstream, specCalls, sent >>

vars == << pc, input, fallbackPrompt, seed, value, hints, theme, palette, accentColor,
           environment, clampedMeshCount, meshes, drawLog, result, previous, calls,
           concurrentVars, handlerVars >>

(* No request has arrived. *)
NoRequest == [server |-> "none", parsed |-> FALSE, body |-> <<>>]

(* The calls that run interleaved. *)
CallIds == {1, 2}

(* The locals of a call that has not started. *)
IdleCall ==
  [ pc |-> "idle", input |-> <<>>, fallbackPrompt |-> "", seed |-> <<0, 0>>,
    hints |-> HintsOf[""], theme |-> Undefined, palette |-> <<>>, accentColor |-> Undefined,
    environment |-> Undefined, clampedMeshCount |-> 0, meshes |-> <<>>,
    stage |-> [states |-> <<>>], base |-> 0, drawn |-> 0, got |-> <<>>,
    interleaved |-> FALSE, result |-> <<>> ]

Finished == pc \in {"done", "threw"}

Init ==
  /\ pc = "idle"
  /\ input = <<>>
  /\ fallbackPrompt = ""
  /\ seed = <<0, 0>>
  /\ value = 0
  /\ hints = HintsOf[""]
  /\ theme = Undefined
  /\ palette = <<>>
  /\ accentColor = Undefined
  /\ environment = Undefined
  /\ clampedMeshCount = 0
  /\ meshes = <<>>
  /\ drawLog = <<>>
  /\ result = <<>>
  /\ previous = <<>>
  /\ calls = 0
  /\ ctx = [c \in CallIds |-> IdleCall]
  /\ gen = [c \in CallIds |-> 0]
  /\ handlerPc = "idle"
  /\ request = NoRequest
  /\ upstream = "none"
  /\ specCalls = <<>>
  /\ sent = <<>>

(* generateModelSpec, lines 680-689: normalisation, seed, generator, hints *)
(* and the named-template attempt.                                         *)
Begin(inp) ==
  /\ pc \in {"idle", "done", "threw"}
  /\ calls < MaxCalls
  /\ calls' = calls + 1
  /\ previous' = IF pc = "idle" THEN <<>>
                 ELSE <<[input |-> input, outcome |-> pc, result |-> result]>>
  /\ LET fp == FallbackPrompt(inp)
         sd == createSeed(fp)
         h == HintsOf[fp]
     IN  /\ input' = inp
         /\ fallbackPrompt' = fp
         /\ seed' = sd
         /\ value' = createGenerator(sd)
         /\ hints' = h
         /\ theme' = Undefined
         /\ palette' = <<>>
         /\ accentColor' = Undefined
         /\ environment' = Undefined
         /\ clampedMeshCount' = 0
         /\ meshes' = <<>>
         /\ IF TemplateOf[fp] # 0
              THEN \E tpl \in {tryTemplateSpec(fp, h, sd)} :
                     /\ result' = <<tpl.spec>>
                     /\ drawLog' = Tag("template-id", tpl.states)
                     /\ pc' = "done"
              ELSE /\ result' = <<>>
                   /\ drawLog' = <<>>
                   /\ pc' = "theme"
  /\ UNCHANGED << concurrentVars, handlerVars >>

(* generateModelSpec, lines 691-703: theme, palette, environment, count.   *)
(* A theme index outside the catalog leaves theme undefined and            *)
(* resolvePalette throws a TypeError on theme.palette.                     *)
SelectTheme ==
  /\ pc = "theme"
  /\ \E pick \in {pickTheme(fallbackPrompt, value, hints)} :
       IF pick.theme = Undefined
           THEN /\ pc' = "threw"
                /\ theme' = Undefined
                /\ value' = Last(pick.states, value)
                /\ drawLog' = drawLog \o Tag("theme", pick.states)
                /\ UNCHANGED << palette, accentColor, environment, clampedMeshCount >>
           ELSE LET th == ThemeById(pick.theme)
                    rp == resolvePalette(th, hints)
                    v1 == Last(pick.states, value)
                    sCount == NextValue(v1)
                    countStates == IF Len(hints.meshTarget) = 0 THEN <<sCount>> ELSE <<>>
                    meshCount == IF Len(hints.meshTarget) = 0
                                   THEN 2 + FloorScaled(sCount, 3)
                                   ELSE hints.meshTarget[1]
                IN  /\ pc' = "compose"
                    /\ theme' = pick.theme
                    /\ palette' = rp.palette
                    /\ accentColor' = rp.accentColor
                    /\ environment' = Coalesce(hints.environmentHint, th.environment)
                    /\ clampedMeshCount' = clamp(meshCount, 1, 4)
                    /\ value' = Last(countStates, v1)
                    /\ drawLog' = drawLog \o Tag("theme", pick.states)
                                    \o Tag("count", countStates)
  /\ UNCHANGED << input, fallbackPrompt, seed, hints, meshes, result, previous, calls,
                  concurrentVars, handlerVars >>

(* One iteration of the loop of lines 705-707. *)
ComposeMesh ==
  /\ pc = "compose"
  /\ LoopContinues(Len(meshes), clampedMeshCount)
  /\ LET context == [ palette |-> palette, accentColor |-> accentColor,
                      primaryGeometry |-> hints.geometryPreference,
                      detailBias |-> hints.detailBias ]
     IN  \E d \in {createMeshDescriptor(ThemeById(theme), fallbackPrompt, value,
                                        Len(meshes), context)} :
           /\ drawLog' = drawLog \o d.log
           /\ value' = d.log[Len(d.log)].state
           /\ meshes' = Append(meshes, d.mesh)
  /\ UNCHANGED << pc, input, fallbackPrompt, seed, hints, theme, palette, accentColor,
                  environment, clampedMeshCount, result, previous,
                  calls, concurrentVars, handlerVars >>

(* generateModelSpec, lines 709-715. *)
Return ==
  /\ pc = "compose"
  /\ ~LoopContinues(Len(meshes), clampedMeshCount)
  /\ result' = << [ prompt |-> fallbackPrompt, seed |-> seed, environment |-> environment,
                    accentColor |-> accentColor, meshes |-> meshes ] >>
  /\ pc' = "done"
  /\ UNCHANGED << input, fallbackPrompt, seed, value, hints, theme, palette, accentColor,
                  environment, clampedMeshCount, meshes, drawLog, previous,
                  calls, concurrentVars, handlerVars >>

Next ==
  \/ \E inp \in Inputs : Begin(inp)
  \/ SelectTheme
  \/ ComposeMesh
  \/ Return

Spec == Init /\ [][Next]_vars

----------------------------------------------------------------------------
(* generateModelSpec as a function of its argument, and two calls of it    *)
(* interleaved draw by draw.                                               *)

(* lines 692-695 for the theme pickTheme returned from generator state v.  *)
(* An undefined theme makes resolvePalette throw before the count is drawn. *)
resolveTheme(pick, v, promptHints) ==
  IF pick.theme = Undefined
    THEN [ threw |-> TRUE, theme |-> Undefined, palette |-> <<>>,
           accentColor |-> Undefined, environment |-> Undefined,
           clampedMeshCount |-> 0, states |-> pick.states ]
    ELSE LET th == ThemeById(pick.theme)
             rp == resolvePalette(th, promptHints)
             sCount == NextValue(Last(pick.states, v))
         IN  [ threw |-> FALSE,
               theme |-> pick.theme,
               palette |-> rp.palette,
               accentColor |-> rp.accentColor,
               environment |-> Coalesce(promptHints.environmentHint, th.environment),
               clampedMeshCount |->
                 clamp(IF Len(promptHints.meshTarget) = 0 THEN 2 + FloorScaled(sCount, 3)
                       ELSE promptHints.meshTarget[1], 1, 4),
               states |->
                 pick.states \o (IF Len(promptHints.meshTarget) = 0 THEN <<sCount>> ELSE <<>>) ]

(* lines 691-695 *)
selectTheme(prompt, v, promptHints) == resolveTheme(pickTheme(prompt, v, promptHints), v, promptHints)

(* lines 698-703 *)
contextOf(x) ==
  [ palette |-> x.palette, accentColor |-> x.accentColor,
    primaryGeometry |-> x.hints.geometryPreference, detailBias |-> x.hints.detailBias ]

(* The remaining iterations of the loop of lines 705-707. *)
RECURSIVE composeMeshes(_, _)
pushMesh(x, d) ==
  composeMeshes([x EXCEPT !.meshes = Append(@, d.mesh)], d.log[Len(d.log)].state)

composeMeshes(x, v) ==
  IF LoopContinues(Len(x.meshes), x.clampedMeshCount)
    THEN pushMesh(x, createMeshDescriptor(ThemeById(x.theme), x.fallbackPrompt, v,
                                          Len(x.meshes), contextOf(x)))
    ELSE x.meshes

(* lines 709-715 *)
blueprintOf(x, meshList) ==
  [ prompt |-> x.fallbackPrompt, seed |-> x.seed, environment |-> x.environment,
    accentColor |-> x.accentColor, meshes |-> meshList ]

(* lines 691-715 once the theme has been selected. *)
themePath(x, v, st) ==
  IF st.threw
    THEN [outcome |-> "threw", result |-> <<>>]
    ELSE [ outcome |-> "done",
           result |->
             << blueprintOf(
                  [x EXCEPT !.environment = st.environment, !.accentColor = st.accentColor],
                  composeMeshes(
                    [x EXCEPT !.theme = st.theme, !.palette = st.palette,
                              !.accentColor = st.accentColor,
                              !.clampedMeshCount = st.clampedMeshCount],
                    Last(st.states, v))) >> ]

(* lines 681-684 *)
startCall(inp, fp) ==
  [ IdleCall EXCEPT !.input = inp, !.fallbackPrompt = fp, !.seed = createSeed(fp),
                    !.hints = HintsOf[fp] ]

(* generateModelSpec run alone: how the call ends and what it returns. *)
runCall(x) ==
  IF TemplateOf[x.fallbackPrompt] # 0
    THEN [ outcome |-> "done",
           result |-> <<tryTemplateSpec(x.fallbackPrompt, x.hints, x.seed).spec>> ]
    ELSE themePath(x, createGenerator(x.seed),
                   selectTheme(x.fallbackPrompt, createGenerator(x.seed), x.hints))

generateModelSpec(inp) == runCall(startCall(inp, FallbackPrompt(inp)))

(* The arguments of the interleaved calls. *)
ConcurrentInputs ==
  { <<"robot">>, <<"cricket bat">>, <<"a single glowing crystal statue">>,
    <<"glowing orb">>, <<"model 334185432">> }

Alone == [inp \in ConcurrentInputs |-> generateModelSpec(inp)]

(* A generator that every call shares. *)
CellShared(c) == 1

(* The generator a call draws from: the closure it created itself (line   *)
(* 683, or line 496 on the template path).                                *)
Cell(c) == c

StatesOf(log) == [k \in 1..Len(log) |-> log[k].state]

(* What a call that starts from generator state v computes up to its next *)
(* statement that does not draw: the states of the draws it makes, in     *)
(* order, and the value it will hold once it has made them.               *)
NoStage == [states |-> <<>>]

firstStage(x, v) ==
  IF x.pc = "template"
    THEN tryTemplateSpec(x.fallbackPrompt, x.hints, x.seed)
    ELSE selectTheme(x.fallbackPrompt, v, x.hints)

meshStage(d) == [states |-> StatesOf(d.log), mesh |-> d.mesh]

nextStage(x, v) ==
  IF x.pc = "compose" /\ LoopContinues(Len(x.meshes), x.clampedMeshCount)
    THEN meshStage(createMeshDescriptor(ThemeById(x.theme), x.fallbackPrompt, v,
                                        Len(x.meshes), contextOf(x)))
    ELSE NoStage

(* The call stands at x with generator state v. *)
enter(x, stage, v) == [x EXCEPT !.stage = stage, !.base = v, !.drawn = 0]

StageDrawn(x) == x.drawn = Len(x.stage.states)

(* lines 681-689: the call starts and creates its generator. *)
CBegin(c, inp) ==
  /\ ctx[c].pc = "idle"
  /\ \E x \in {[startCall(inp, FallbackPrompt(inp)) EXCEPT
                  !.pc = IF TemplateOf[FallbackPrompt(inp)] # 0 THEN "template" ELSE "theme"]} :
       /\ gen' = [gen EXCEPT ![Cell(c)] = createGenerator(x.seed)]
       /\ ctx' = [ctx EXCEPT ![c] = enter(x, firstStage(x, createGenerator(x.seed)),
                                          createGenerator(x.seed))]
  /\ UNCHANGED << generatorVars, handlerVars >>

(* The call has drawn and has draws left to make. *)
Drawing(x) ==
  /\ x.pc \in {"template", "theme", "compose"}
  /\ Len(x.got) > 0
  /\ (~StageDrawn(x) \/ LoopContinues(Len(x.meshes), x.clampedMeshCount))

(* One call of rand(), lines 468-469.  The call notes whether it draws     *)
(* between two draws of another call.                                      *)
CDraw(c) ==
  /\ ctx[c].pc \in {"template", "theme", "compose"}
  /\ ~StageDrawn(ctx[c])
  /\ gen' = [gen EXCEPT ![Cell(c)] = NextValue(@)]
  /\ ctx' = [ctx EXCEPT ![c].drawn = @ + 1,
                        ![c].got = Append(@, NextValue(gen[Cell(c)])),
                        ![c].interleaved = @ \/ \E o \in CallIds \ {c} : Drawing(ctx[o])]
  /\ UNCHANGED << generatorVars, handlerVars >>

(* lines 686-689: the template blueprint is returned. *)
CTemplate(c) ==
  /\ ctx[c].pc = "template"
  /\ StageDrawn(ctx[c])
  /\ ctx' = [ctx EXCEPT ![c].pc = "done", ![c].result = <<ctx[c].stage.spec>>]
  /\ UNCHANGED << gen, generatorVars, handlerVars >>

(* lines 691-703 *)
CSelectTheme(c) ==
  /\ ctx[c].pc = "theme"
  /\ StageDrawn(ctx[c])
  /\ \E x \in {[ctx[c] EXCEPT !.pc = IF ctx[c].stage.threw THEN "threw" ELSE "compose",
                              !.theme = ctx[c].stage.theme,
                              !.palette = ctx[c].stage.palette,
                              !.accentColor = ctx[c].stage.accentColor,
                              !.environment = ctx[c].stage.environment,
                              !.clampedMeshCount = ctx[c].stage.clampedMeshCount]} :
       ctx' = [ctx EXCEPT ![c] = enter(x, nextStage(x, gen[Cell(c)]), gen[Cell(c)])]
  /\ UNCHANGED << gen, generatorVars, handlerVars >>

(* line 706 *)
CComposeMesh(c) ==
  /\ ctx[c].pc = "compose"
  /\ LoopContinues(Len(ctx[c].meshes), ctx[c].clampedMeshCount)
  /\ StageDrawn(ctx[c])
  /\ \E x \in {[ctx[c] EXCEPT !.meshes = Append(@, ctx[c].stage.mesh)]} :
       ctx' = [ctx EXCEPT ![c] = enter(x, nextStage(x, gen[Cell(c)]), gen[Cell(c)])]
  /\ UNCHANGED << gen, generatorVars, handlerVars >>

(* lines 709-715 *)
CReturn(c) ==
  /\ ctx[c].pc = "compose"
  /\ ~LoopContinues(Len(ctx[c].meshes), ctx[c].clampedMeshCount)
  /\ ctx' = [ctx EXCEPT ![c].pc = "done",
                        ![c].result = <<blueprintOf(ctx[c], ctx[c].meshes)>>]
  /\ UNCHANGED << gen, generatorVars, handlerVars >>

NextConcurrent ==
  \E c \in CallIds :
    \/ \E inp \in ConcurrentInputs : CBegin(c, inp)
    \/ CDraw(c)
    \/ CTemplate(c)
    \/ CSelectTheme(c)
    \/ CComposeMesh(c)
    \/ CReturn(c)

SpecConcurrent == Init /\ [][NextConcurrent]_vars

----------------------------------------------------------------------------
(* POST /api/generate-model: the handler of the 3D-model server            *)
(* (src/unnamed/part_001, "model") and of the texture server               *)
(* (src/unnamed/part_002, "texture").                                      *)

Null == "null"

(* The prompt field of a request body: absent, or a string. *)
BodyPrompts == {<<>>, <<"">>, <<"robot">>, <<"cricket bat">>, <<"model 334185432">>}

(* The referenceImageBase64 field: absent, the empty string, a base64     *)
(* string, or a value that is not a string.                                *)
BodyImages == {"absent", "empty", "base64", "malformed"}

(* express.json leaves no body, or the parsed object. *)
Bodies == {<<>>} \cup {<<[prompt |-> p, image |-> i]>> : p \in BodyPrompts, i \in BodyImages}

Servers == {"model", "texture"}

(* What generateModelSpec does for each argument the handlers pass. *)
Blueprints == [inp \in BodyPrompts |-> generateModelSpec(inp)]

(* JavaScript truthiness of the two fields. *)
HasPrompt(body) == Len(body.prompt) = 1 /\ Len(body.prompt[1]) > 0
HasImage(body) == body.image \notin {"absent", "empty"}

(* prompt || '' *)
PromptOrEmpty(body) == IF HasPrompt(body) THEN body.prompt ELSE <<"">>

(* res.status(status).json(body) *)
Response(status, body) == [status |-> status, body |-> body]

ErrorBody == [error |-> TRUE]

(* A request reaches the server.  In the 3D-model server a body that       *)
(* express.json rejects goes to the global error handler.                  *)
Receive(server, body, parsed) ==
  /\ handlerPc \in {"idle", "end"}
  /\ parsed \/ (server = "model" /\ body = <<>>)
  /\ server = "texture" => body # <<>>
  /\ request' = [server |-> server, parsed |-> parsed, body |-> body]
  /\ handlerPc' = IF parsed THEN "body" ELSE "global"
  /\ upstream' = "none"
  /\ specCalls' = <<>>
  /\ sent' = <<>>
  /\ UNCHANGED << generatorVars, concurrentVars >>

(* part_001, lines 265-268 *)
CheckBody ==
  /\ handlerPc = "body"
  /\ request.server = "model"
  /\ IF request.body = <<>>
       THEN /\ sent' = Append(sent, Response(400, ErrorBody))
            /\ handlerPc' = "end"
       ELSE /\ sent' = sent
            /\ handlerPc' = "inputs"
  /\ UNCHANGED << request, upstream, specCalls, generatorVars, concurrentVars >>

(* A handler that answers 400 to a request without prompt and image and *)
(* goes on.                                                               *)
CheckInputsFallsThrough ==
  /\ \/ handlerPc = "inputs"
     \/ handlerPc = "body" /\ request.server = "texture"
  /\ sent' = IF ~HasPrompt(request.body[1]) /\ ~HasImage(request.body[1])
               THEN Append(sent, Response(400, ErrorBody)) ELSE sent
  /\ handlerPc' = IF request.server = "model" THEN "image" ELSE "generate"
  /\ UNCHANGED << request, upstream, specCalls, generatorVars, concurrentVars >>

(* part_001, lines 282-286; part_002, lines 156-165 *)
CheckInputs ==
  /\ \/ handlerPc = "inputs"
     \/ handlerPc = "body" /\ request.server = "texture"
  /\ IF ~HasPrompt(request.body[1]) /\ ~HasImage(request.body[1])
       THEN /\ sent' = Append(sent, Response(400, ErrorBody))
            /\ handlerPc' = "end"
       ELSE /\ sent' = sent
            /\ handlerPc' = IF request.server = "model" THEN "image" ELSE "generate"
  /\ UNCHANGED << request, upstream, specCalls, generatorVars, concurrentVars >>

(* part_001, lines 289-301: a reference image that is not a string makes  *)
(* includes or split throw.                                                *)
ValidateImage ==
  /\ handlerPc = "image"
  /\ IF request.body[1].image = "malformed"
       THEN /\ sent' = Append(sent, Response(400, ErrorBody))
            /\ handlerPc' = "end"
       ELSE /\ sent' = sent
            /\ handlerPc' = "upstream"
  /\ UNCHANGED << request, upstream, specCalls, generatorVars, concurrentVars >>

(* part_001, lines 306-342: the upstream call returns a model, rejects    *)
(* with an Error or, for the text-to-3D client whose rejection is thrown   *)
(* on as it is, rejects with undefined or null.                            *)
Upstream3D(outcome, randomSeed) ==
  /\ handlerPc = "upstream"
  /\ outcome = "nullish" => ~HasImage(request.body[1])
  /\ upstream' = outcome
  /\ IF outcome = "ok"
       THEN /\ sent' = Append(sent,
                 Response(200,
                   [ model3DUrl |-> "data:model/gltf-binary;base64",
                     modelSpec |->
                       [ prompt |-> IF HasPrompt(request.body[1])
                                      THEN request.body[1].prompt[1]
                                      ELSE "Generated from image",
                         seed |-> randomSeed,
                         environment |-> "studio",
                         accentColor |-> "#4f46e5",
                         meshes |-> <<>>,
                         source |-> IF HasImage(request.body[1])
                                      THEN "triposr-image" ELSE "shap-e-text" ],
                     textureDataUrl |-> Null ]))
            /\ handlerPc' = "end"
       ELSE /\ sent' = sent
            /\ handlerPc' = IF outcome = "error" THEN "fallback" ELSE "unexpected"
  /\ UNCHANGED << request, specCalls, generatorVars, concurrentVars >>

(* part_001, lines 344-365: the procedural fallback. *)
Fallback ==
  /\ handlerPc = "fallback"
  /\ specCalls' = Append(specCalls, PromptOrEmpty(request.body[1]))
  /\ \E r \in {Blueprints[PromptOrEmpty(request.body[1])]} :
       sent' = Append(sent,
                 IF r.outcome = "done"
                   THEN Response(200, [ model3DUrl |-> Null, modelSpec |-> r.result[1],
                                        textureDataUrl |-> Null, error |-> TRUE ])
                   ELSE Response(500, ErrorBody))
  /\ handlerPc' = "end"
  /\ UNCHANGED << request, upstream, generatorVars, concurrentVars >>

(* part_001, lines 367-382 (the outer catch) and lines 390-401 (the       *)
(* global error handler): both answer 500 unless headers were sent.        *)
ErrorHandler ==
  /\ handlerPc \in {"unexpected", "global"}
  /\ sent' = IF Len(sent) = 0 THEN Append(sent, Response(500, ErrorBody)) ELSE sent
  /\ handlerPc' = "end"
  /\ UNCHANGED << request, upstream, specCalls, generatorVars, concurrentVars >>

(* part_002, line 167, and the catch of lines 183-188. *)
GenerateSpec ==
  /\ handlerPc = "generate"
  /\ specCalls' = Append(specCalls, request.body[1].prompt)
  /\ IF Blueprints[request.body[1].prompt].outcome = "done"
       THEN /\ sent' = sent
            /\ handlerPc' = "texture"
       ELSE /\ sent' = Append(sent, Response(500, ErrorBody))
            /\ handlerPc' = "end"
  /\ UNCHANGED << request, upstream, generatorVars, concurrentVars >>

(* part_002, lines 173-182 *)
UpstreamTexture(outcome) ==
  /\ handlerPc = "texture"
  /\ upstream' = outcome
  /\ sent' = Append(sent,
               Response(200,
                 [ textureDataUrl |-> IF outcome = "ok" THEN "data:image/png;base64" ELSE Null,
                   modelSpec |-> Blueprints[request.body[1].prompt].result[1] ]))
  /\ handlerPc' = "end"
  /\ UNCHANGED << request, specCalls, generatorVars, concurrentVars >>

NextHandler ==
  \/ \E server \in Servers, body \in Bodies, parsed \in BOOLEAN : Receive(server, body, parsed)
  \/ CheckBody
  \/ CheckInputs
  \/ ValidateImage
  \/ \E outcome \in {"ok", "error", "nullish"}, randomSeed \in {0, 999999} :
       Upstream3D(outcome, randomSeed)
  \/ Fallback
  \/ ErrorHandler
  \/ GenerateSpec
  \/ \E outcome \in {"ok", "error"} : UpstreamTexture(outcome)

SpecHandler == Init /\ [][NextHandler]_vars

----------------------------------------------------------------------------
(* Properties *)

PreviousDone == Len(previous) = 1 /\ previous[1].outcome = "done"

(* The call returned through tryTemplateSpec. *)
TemplatePathTaken == pc = "done" /\ Len(drawLog) > 0 /\ drawLog[1].label = "template-id"

(* The call went past the template attempt into the theme pipeline. *)
ThemePathTaken == pc \in {"compose", "threw"} \/ (pc = "done" /\ ~TemplatePathTaken)

(* The argument is absent, empty or made of whitespace only. *)
EmptyLike(inp) ==
  Len(inp) = 0 \/ \A i \in 1..Len(inp[1]) : SubSeq(inp[1], i, i) \in WhiteSpace

(* C1. Determinism: a call with the same argument as the call before it     *)
(* ends the same way and returns a blueprint equal in every field (prompt,  *)
(* seed, environment, accentColor and the ordered mesh list).               *)
C1_Determinism ==
  (Finished /\ Len(previous) = 1 /\ previous[1].input = input)
    => (previous[1].outcome = pc /\ previous[1].result = result)

(* Two calls with a prompt whose theme, mesh count and meshes all come from *)
(* random draws have both returned.                                         *)
C1_Witness ==
  /\ pc = "done"
  /\ PreviousDone
  /\ input = <<"glowing orb">>
  /\ previous[1].input = input
  /\ Len(result[1].meshes) = 4

(* C2. Empty-input normalization: a call with an absent, empty or           *)
(* whitespace-only argument records the prompt and the seed of              *)
(* "abstract artifact", and its blueprint equals the one returned for       *)
(* "abstract artifact" by the call before or after it.                      *)
C2_EmptyInputNormalized ==
  /\ (pc = "done" /\ EmptyLike(input))
       => /\ result[1].prompt = "abstract artifact"
          /\ result[1].seed = createSeed("abstract artifact")
  /\ (pc = "done" /\ PreviousDone /\ EmptyLike(input)
        /\ previous[1].input = <<"abstract artifact">>)
       => result = previous[1].result
  /\ (pc = "done" /\ PreviousDone /\ EmptyLike(previous[1].input)
        /\ input = <<"abstract artifact">>)
       => result = previous[1].result

(* A whitespace-only call has returned right after "abstract artifact". *)
C2_Witness ==
  /\ pc = "done"
  /\ PreviousDone
  /\ input = <<"   ">>
  /\ previous[1].input = <<"abstract artifact">>
  /\ Len(result[1].meshes) > 0

(* C3. Mesh count bounds: every returned blueprint, from the theme path or  *)
(* from a named template, has at least 1 and at most 4 meshes.              *)
C3_MeshCountBounds == pc = "done" => Len(result[1].meshes) \in 1..4

(* A theme-path call has returned the largest blueprint. *)
C3_Witness == pc = "done" /\ ~TemplatePathTaken /\ Len(result[1].meshes) = 4

StartsWith(text, prefix) ==
  Len(text) >= Len(prefix) /\ SubSeq(text, 1, Len(prefix)) = prefix

(* C4. Totality: no call raises, and every random selection (theme,         *)
(* geometry kind, name seed) yields an element of its list, never           *)
(* undefined.                                                               *)
C4_Totality ==
  /\ pc # "threw"
  /\ pc = "compose" => theme \in ThemeIds
  /\ \A i \in 1..Len(meshes) :
       /\ ~StartsWith(meshes[i].id, "undefined")
       /\ ~StartsWith(meshes[i].name, "undefined")

(* C5. RNG range: the state of a generator after every update lies in       *)
(* 1..2147483646, so that every draw (state - 1) / 2147483646 is >= 0 and   *)
(* < 1.                                                                     *)
C5_RngRange == \A i \in 1..Len(drawLog) : drawLog[i].state \in 1..Divisor

(* C6. Seed of the trimmed prompt: a call whose argument has a non-empty    *)
(* trimmed form has the same seed and the same meshes as the call made just *)
(* before it with the trimmed argument.                                     *)
C6_SeedOfTrimmedPrompt ==
  ( /\ pc = "done"
    /\ PreviousDone
    /\ Len(input) = 1
    /\ Len(trim(input[1])) > 0
    /\ previous[1].input = <<trim(input[1])>> )
    => /\ result[1].seed = previous[1].result[1].seed
       /\ result[1].meshes = previous[1].result[1].meshes

(* The argument triggers a named template: its lower-cased text contains a  *)
(* trigger of the catalog.                                                  *)
TriggersTemplate(text) ==
  \E t \in 1..Len(SHAPE_TEMPLATES) : includesAny(toLowerCase(text), SHAPE_TEMPLATES[t].keywords)

(* What the claim calls fixed in a template mesh: everything but the id     *)
(* suffix and the colours.                                                  *)
FixedPart(mesh) ==
  [ name |-> mesh.name, geometry |-> mesh.geometry, transform |-> mesh.transform,
    metalness |-> mesh.material.metalness, roughness |-> mesh.material.roughness,
    wireframe |-> mesh.material.wireframe, modifiers |-> mesh.modifiers ]

(* C7. Template bypass: a call whose prompt contains a template trigger     *)
(* returns exactly the three meshes Cricket-Blade (box), Cricket-Handle     *)
(* (cylinder), Bat-Logo-Panel (box); their fixed parts equal those of any   *)
(* other template call, whatever its seed and hints; no theme was selected, *)
(* no palette resolved, no mesh composed, and the only draws are the three  *)
(* id suffixes.                                                             *)
C7_TemplateBypass ==
  (pc # "idle" /\ TriggersTemplate(fallbackPrompt))
    => /\ pc = "done"
       /\ Len(result[1].meshes) = 3
       /\ [i \in 1..3 |-> result[1].meshes[i].name]
            = <<"Cricket-Blade", "Cricket-Handle", "Bat-Logo-Panel">>
       /\ [i \in 1..3 |-> result[1].meshes[i].geometry.type] = <<"box", "cylinder", "box">>
       /\ StartsWith(result[1].meshes[1].id, "bat-blade-")
       /\ StartsWith(result[1].meshes[2].id, "bat-handle-")
       /\ StartsWith(result[1].meshes[3].id, "bat-cap-")
       /\ (PreviousDone /\ Len(previous[1].input) = 1 /\ TriggersTemplate(previous[1].input[1]))
            => \A i \in 1..3 :
                 FixedPart(result[1].meshes[i]) = FixedPart(previous[1].result[1].meshes[i])
       /\ theme = Undefined
       /\ palette = <<>>
       /\ clampedMeshCount = 0
       /\ meshes = <<>>
       /\ Len(drawLog) = 3
       /\ \A k \in 1..Len(drawLog) : drawLog[k].label = "template-id"

(* A template call with a single-object cue has returned right after one    *)
(* with a multi-object cue and another seed.                                *)
C7_Witness ==
  /\ pc = "done"
  /\ PreviousDone
  /\ input = <<"a single bat">>
  /\ previous[1].input = <<"bat swarm">>
  /\ hints.meshTarget = <<1>>
  /\ result[1].seed # previous[1].result[1].seed
  /\ Len(result[1].meshes) = 3

IsLetter(c) == \E i \in 1..26 : LowerCase[i] = c \/ UpperCase[i] = c

(* phrase occurs in text as a phrase of its own: no letter touches it on    *)
(* either side.                                                             *)
HasPhrase(text, phrase) ==
  \E i \in 1..(Len(text) - Len(phrase) + 1) :
    /\ SubSeq(text, i, i + Len(phrase) - 1) = phrase
    /\ i = 1 \/ ~IsLetter(SubSeq(text, i - 1, i - 1))
    /\ i + Len(phrase) > Len(text)
         \/ ~IsLetter(SubSeq(text, i + Len(phrase), i + Len(phrase)))

(* C8. Exact-phrase template trigger: a call returns through the named      *)
(* template only if its prompt contains a trigger as a phrase of its own,   *)
(* not merely as letters inside a longer word.                              *)
C8_ExactPhraseTrigger ==
  TemplatePathTaken
    => \E t \in 1..Len(SHAPE_TEMPLATES) :
         \E k \in 1..Len(SHAPE_TEMPLATES[t].keywords) :
           HasPhrase(toLowerCase(fallbackPrompt), SHAPE_TEMPLATES[t].keywords[k])

(* The catalog entries, by position, with a keyword in the lower-cased      *)
(* prompt of the call.                                                      *)
MatchingThemes ==
  {i \in 1..Len(THEME_PRESETS) :
     includesAny(toLowerCase(fallbackPrompt), THEME_PRESETS[i].keywords)}

(* The draws of the call made by theme selection. *)
ThemeDraws == SelectSeq(drawLog, LAMBDA e : e.label = "theme")

(* C9. Theme selection order: once a call on the theme path has selected    *)
(* its theme, the theme is the first entry of <<mechanical, organic, aero,  *)
(* abstract>> with a keyword in the lower-cased prompt and theme selection  *)
(* drew nothing; if no entry matches, theme selection made exactly one      *)
(* draw r, the first of the generator, and the theme is entry floor(r * 4). *)
C9_ThemeSelectionOrder ==
  ThemePathTaken
    => IF MatchingThemes # {}
         THEN /\ theme = <<"mechanical", "organic", "aero", "abstract">>[
                           CHOOSE i \in MatchingThemes : \A j \in MatchingThemes : i <= j]
              /\ Len(ThemeDraws) = 0
         ELSE /\ Len(ThemeDraws) = 1
              /\ drawLog[1] = [label |-> "theme", state |-> NextValue(SeedMod(seed))]
              /\ theme = At(<<"mechanical", "organic", "aero", "abstract">>,
                            FloorScaled(drawLog[1].state, 4))

(* A call has returned whose prompt matches organic by its first word and   *)
(* mechanical by its second.                                                *)
C9_Witness ==
  /\ pc = "done"
  /\ fallbackPrompt = "dragon robot"
  /\ MatchingThemes = {1, 2}
  /\ theme = "mechanical"
  /\ Len(result[1].meshes) > 0

(* C10. Cardinality cues: a call that returns without a named template has  *)
(* exactly 1 mesh if its prompt holds a single-object cue, else exactly 4   *)
(* if it holds a multi-object cue, else 2, 3 or 4.                          *)
C10_CardinalityCues ==
  (pc = "done" /\ ~TemplatePathTaken)
    => IF includesAny(toLowerCase(fallbackPrompt), SINGLE_OBJECT_KEYWORDS)
         THEN Len(result[1].meshes) = 1
         ELSE IF includesAny(toLowerCase(fallbackPrompt), MULTI_OBJECT_KEYWORDS)
           THEN Len(result[1].meshes) = 4
           ELSE Len(result[1].meshes) \in {2, 3, 4}

(* C11. Primary transform identity: on the theme path the first mesh has    *)
(* position <<0,0,0>>, rotation <<0,0,0>> and scale <<1,1,1>>, and no       *)
(* transform draw is made before the first mesh is complete (its name draw  *)
(* is its last).                                                            *)
C11_PrimaryTransformIdentity ==
  (ThemePathTaken /\ Len(meshes) >= 1)
    => /\ meshes[1].transform = [ position |-> <<0, 0, 0>>,
                                  rotation |-> <<0, 0, 0>>,
                                  scale |-> <<1000000, 1000000, 1000000>> ]
       /\ \A k \in 1..Len(drawLog) :
            drawLog[k].label = "transform"
              => \E j \in 1..(k - 1) : drawLog[j].label = "name"

(* A theme-path call has returned a second mesh placed by nine draws. *)
C11_Witness ==
  /\ pc = "done"
  /\ ~TemplatePathTaken
  /\ Len(result[1].meshes) >= 2
  /\ result[1].meshes[1].transform.scale = <<1000000, 1000000, 1000000>>
  /\ result[1].meshes[2].transform # result[1].meshes[1].transform
  /\ Len(SelectSeq(drawLog, LAMBDA e : e.label = "transform")) = 9 * (Len(meshes) - 1)

(* The numeric parameters of a geometry lie in the range declared for its   *)
(* kind (millionths).                                                       *)
GeometryInRange(g) ==
  CASE g.type = "sphere" -> g.radius \in 1100000..1800000
    [] g.type = "box" -> /\ g.width \in 1000000..2200000
                         /\ g.height \in 1000000..1600000
                         /\ g.depth \in 1000000..2000000
    [] g.type = "torus" -> /\ g.radius \in 1200000..1900000
                           /\ g.tube \in 200000..500000
    [] g.type = "cylinder" -> g.height \in 2000000..3200000
    [] g.type = "cone" -> g.height \in 1400000..2400000
    [] g.type = "icosahedron" -> g.radius \in 1200000..1700000

(* C12. Range containment: in every returned blueprint, every mesh has its  *)
(* numeric geometry parameters within the range declared for its kind.      *)
C12_RangeContainment ==
  pc = "done"
    => \A i \in 1..Len(result[1].meshes) : GeometryInRange(result[1].meshes[i].geometry)

(* The segment counts of a geometry lie in the integer range of its kind.   *)
SegmentsInRange(g) ==
  CASE g.type = "sphere" -> g.widthSegments \in 32..47 /\ g.heightSegments \in 32..47
    [] g.type = "box" -> TRUE
    [] g.type = "torus" -> g.radialSegments \in 16..31 /\ g.tubularSegments \in 48..79
    [] g.type = "cylinder" -> g.radialSegments \in 32..47 /\ g.heightSegments \in 1..3
    [] g.type = "cone" -> g.radialSegments \in 32..47 /\ g.heightSegments \in 1..2
    [] g.type = "icosahedron" -> g.detail \in {0, 1}

(* C13. No degenerate segment counts: in every returned blueprint every     *)
(* segment-count field lies in the range of its kind (at least 1), and an   *)
(* icosahedron's detail is 0 or 1.                                          *)
C13_SegmentCounts ==
  pc = "done"
    => \A i \in 1..Len(result[1].meshes) : SegmentsInRange(result[1].meshes[i].geometry)

(* The offsets the claim gives per detail bias, in hundredths. *)
MaterialBias ==
  [ organic |-> [metalness |-> -20, roughness |-> 20],
    mechanical |-> [metalness |-> 15, roughness |-> -10],
    neutral |-> [metalness |-> 0, roughness |-> 0] ]

(* x limited to [0,1], in hundredths. *)
Unit(x) == IF x < 0 THEN 0 ELSE IF x > 100 THEN 100 ELSE x

(* C14. Material bias: on the theme path every mesh has metalness and       *)
(* roughness equal to the theme's base value plus the offset of the detail  *)
(* bias, limited to [0,1]; both lie in [0,1] and are the same for every     *)
(* mesh of the blueprint.                                                   *)
C14_MaterialBias ==
  (ThemePathTaken /\ theme \in ThemeIds)
    => \A i \in 1..Len(meshes) :
         /\ meshes[i].material.metalness
              = Unit(ThemeById(theme).baseMaterial.metalness
                       + MaterialBias[hints.detailBias].metalness)
         /\ meshes[i].material.roughness
              = Unit(ThemeById(theme).baseMaterial.roughness
                       + MaterialBias[hints.detailBias].roughness)
         /\ meshes[i].material.metalness \in 0..100
         /\ meshes[i].material.roughness \in 0..100
         /\ meshes[i].material.metalness = meshes[1].material.metalness
         /\ meshes[i].material.roughness = meshes[1].material.roughness

(* A mechanical-theme, mechanical-bias call has returned several meshes,    *)
(* all at metalness 1 and roughness 0.15.                                   *)
C14_Witness ==
  /\ pc = "done"
  /\ fallbackPrompt = "robot"
  /\ hints.detailBias = "mechanical"
  /\ Len(result[1].meshes) >= 2
  /\ \A i \in 1..Len(result[1].meshes) :
       /\ result[1].meshes[i].material.metalness = 100
       /\ result[1].meshes[i].material.roughness = 15

(* The colours of the COLOR_KEYWORDS entries with a term in the lower-cased *)
(* prompt of the call, in table order.                                      *)
HintColours ==
  LET hit == SelectSeq(COLOR_KEYWORDS,
                       LAMBDA entry : includesAny(toLowerCase(fallbackPrompt), entry.terms))
  IN  [i \in 1..Len(hit) |-> hit[i].hex]

(* The palette pal and the accent acc resolve the hint colours against the *)
(* theme th as the claim states.                                            *)
Resolves(pal, acc, colours, th) ==
  IF Len(colours) = 0
    THEN pal = th.palette /\ acc = th.accentColor
    ELSE /\ pal = colours
                    \o SelectSeq(th.palette,
                                 LAMBDA c : \A i \in 1..Len(colours) : colours[i] # c)
         /\ \A i, j \in 1..Len(pal) : pal[i] = pal[j] => i = j
         /\ Len(pal) >= Len(th.palette)
         /\ acc = colours[1]

(* C15. Palette resolution: once the theme is selected, with no colour hint *)
(* the palette and the accent are the theme's; with colour hints the        *)
(* palette is the hint colours in order followed by the theme colours not   *)
(* among them, has no duplicates and at least as many colours as the        *)
(* theme's palette, and the accent is the first hint colour.  The blueprint *)
(* returns that accent.                                                     *)
C15_PaletteResolution ==
  (ThemePathTaken /\ theme \in ThemeIds)
    => /\ Resolves(palette, accentColor, HintColours, ThemeById(theme))
       /\ pc = "done" => result[1].accentColor = accentColor

(* A call has returned whose colour hint is already a colour of its theme:  *)
(* purple is the second colour of the abstract palette.                     *)
C15_Witness ==
  /\ pc = "done"
  /\ fallbackPrompt = "purple sigil array"
  /\ theme = "abstract"
  /\ HintColours = <<"#a855f7">>
  /\ palette = <<"#a855f7", "#c084fc", "#f472b6", "#fdf2f8">>
  /\ result[1].accentColor = "#a855f7"

(* The colours of the meshes follow from the palette pal and the palette    *)
(* draws as the claim states: the first mesh has pal[0]; the mesh of index  *)
(* i > 0 has pal[1 + floor(r * (len - 1))] for the i-th palette draw r, an  *)
(* element of pal[1:].  (Sequences are 1-based here.)                       *)
PaletteIndexed(pal, draws) ==
  /\ Len(meshes) >= 1 => Len(draws) = Len(meshes) - 1
  /\ \A i \in 1..Len(meshes) :
       IF i = 1
         THEN meshes[i].material.color = pal[1]
         ELSE /\ 2 + FloorScaled(draws[i - 1].state, Len(pal) - 1) \in 2..Len(pal)
              /\ meshes[i].material.color
                   = pal[2 + FloorScaled(draws[i - 1].state, Len(pal) - 1)]

(* C16. Palette indexing: on the theme path the first mesh takes palette[0] *)
(* and no palette draw is made before it is complete; every later mesh      *)
(* takes palette[1 + floor(r * (len - 1))] for one draw r of its own, an    *)
(* index within 1..len-1.                                                   *)
C16_PaletteIndexing ==
  (ThemePathTaken /\ theme \in ThemeIds)
    => /\ PaletteIndexed(palette, SelectSeq(drawLog, LAMBDA e : e.label = "palette"))
       /\ \A k \in 1..Len(drawLog) :
            drawLog[k].label = "palette" => \E j \in 1..(k - 1) : drawLog[j].label = "name"

(* The kinds the mesh of 0-based index i may take for theme th and the      *)
(* geometry hint hint.                                                      *)
KindPool(th, hint, i) ==
  (IF hint = Undefined THEN {} ELSE {hint})
    \cup (IF i = 0 THEN {th.primaryGeometry}
          ELSE {th.secondaryGeometries[k] : k \in 1..Len(th.secondaryGeometries)})

(* C17. Geometry kind pools: on the theme path the first mesh has the kind  *)
(* of the geometry hint or the theme's primary geometry, every later mesh   *)
(* the kind of the geometry hint or one of the theme's secondary pool, and  *)
(* each mesh makes exactly one kind draw: the fallback draw from the        *)
(* secondary pool is never made.                                            *)
C17_GeometryKindPools ==
  (ThemePathTaken /\ theme \in ThemeIds)
    => /\ \A i \in 1..Len(meshes) :
            \E kind \in KindPool(ThemeById(theme), hints.geometryPreference, i - 1) :
              /\ meshes[i].geometry.type = kind
              /\ StartsWith(meshes[i].id, kind \o "-")
       /\ Len(SelectSeq(drawLog, LAMBDA e : e.label = "kind")) = Len(meshes)

(* In the mesh list ms the first mesh alone is textured and alone has an    *)
(* emissive colour, which is accent, and the first mesh is not wireframe.   *)
PrimaryOnlyFlags(ms, accent) ==
  /\ accent # Undefined
  /\ \A i \in 1..Len(ms) :
       /\ ms[i].material.useTexture = (i = 1)
       /\ ms[i].material.emissive = (IF i = 1 THEN accent ELSE Undefined)
  /\ Len(ms) >= 1 => ms[1].material.wireframe = FALSE

(* C18 as stated. Primary-only material flags: in every returned blueprint, *)
(* theme-driven or template, mesh 0 is the only textured mesh and the only  *)
(* mesh with an emissive colour, which equals the blueprint's accentColor,  *)
(* and mesh 0 is not wireframe.                                             *)
C18_PrimaryOnlyFlags_Stated ==
  pc = "done" => PrimaryOnlyFlags(result[1].meshes, result[1].accentColor)

(* C18 as amended. On the theme path mesh 0 is the only textured mesh and   *)
(* the only mesh with an emissive colour, which equals the accent colour,   *)
(* and mesh 0 is not wireframe.  In a named-template blueprint mesh 0 is    *)
(* the only textured mesh and no mesh is wireframe, but mesh 0 has no       *)
(* emissive colour: the only emissive mesh is the last one, the logo panel, *)
(* and its emissive colour equals the blueprint's accentColor.              *)
C18_PrimaryOnlyFlags ==
  /\ (ThemePathTaken /\ theme \in ThemeIds) => PrimaryOnlyFlags(meshes, accentColor)
  /\ (pc = "done" /\ ~TemplatePathTaken)
       => result[1].meshes = meshes /\ result[1].accentColor = accentColor
  /\ TemplatePathTaken
       => /\ result[1].accentColor # Undefined
          /\ \A i \in 1..Len(result[1].meshes) :
               /\ result[1].meshes[i].material.useTexture = (i = 1)
               /\ result[1].meshes[i].material.wireframe = FALSE
               /\ result[1].meshes[i].material.emissive
                    = (IF i = Len(result[1].meshes)
                         THEN result[1].accentColor ELSE Undefined)

(* A theme-path call has returned a blueprint with a wireframe secondary    *)
(* mesh, right after a template call.                                       *)
C18_Witness ==
  /\ pc = "done"
  /\ ~TemplatePathTaken
  /\ PreviousDone
  /\ Len(previous[1].input) = 1
  /\ TriggersTemplate(previous[1].input[1])
  /\ previous[1].result[1].meshes[3].material.emissive = previous[1].result[1].accentColor
  /\ Len(result[1].meshes) >= 2
  /\ result[1].meshes[1].material.emissive = result[1].accentColor
  /\ \E i \in 2..Len(result[1].meshes) : result[1].meshes[i].material.wireframe

(* The jitter factor of a modifier, in thousandths, for the draw left in    *)
(* state v; it lies in [lo, hi].                                            *)
Jitter(v, lo, hi) == lo + FloorScaled(v, hi - lo)

(* The detail multiplier in hundredths and the mechanical damping in tenths *)
(* that the claim gives for a detail bias.                                  *)
DetailMultiplier(bias) ==
  IF bias = "organic" THEN 125 ELSE IF bias = "mechanical" THEN 65 ELSE 100

Damping(bias, tenths) == IF bias = "mechanical" THEN tenths ELSE 10

(* The modifiers mod of a mesh are scaled as the claim states from the      *)
(* theme's magnitudes base, the six modifier draws m of the mesh and the    *)
(* detail bias (unit 10^-8).                                                *)
ModifiersScaled(mod, base, m, bias) ==
  /\ Jitter(m[1].state, 900, 1400) \in 900..1400
  /\ Jitter(m[4].state, 700, 1300) \in 700..1300
  /\ Jitter(m[5].state, 500, 1200) \in 500..1200
  /\ Jitter(m[6].state, 800, 1200) \in 800..1200
  /\ mod.noiseAmplitude
       = base.noiseAmplitude * Jitter(m[1].state, 900, 1400) * DetailMultiplier(bias)
           * Damping(bias, 8)
  /\ mod.twistStrength
       = base.twistStrength * Jitter(m[4].state, 700, 1300) * DetailMultiplier(bias) * 10
  /\ mod.taperStrength
       = base.taperStrength * Jitter(m[5].state, 500, 1200) * DetailMultiplier(bias)
           * Damping(bias, 7)
  /\ mod.squash
       = base.squash * Jitter(m[6].state, 800, 1200) * DetailMultiplier(bias)
           * Damping(bias, 6)

(* The modifier draws of the call, six per mesh. *)
ModifierDraws == SelectSeq(drawLog, LAMBDA e : e.label = "modifiers")

(* C19. Modifier scaling: on the theme path, for every mesh, noise          *)
(* amplitude, twist, taper and squash each equal the theme's magnitude      *)
(* times a jitter factor within its range times the detail multiplier, and  *)
(* under mechanical bias noise amplitude, taper and squash are further      *)
(* multiplied by 0.8, 0.7 and 0.6.                                          *)
C19_ModifierScaling ==
  (ThemePathTaken /\ theme \in ThemeIds)
    => \A i \in 1..Len(meshes) :
         ModifiersScaled(meshes[i].modifiers, ThemeById(theme).modifiers,
                         SubSeq(ModifierDraws, 6 * (i - 1) + 1, 6 * i), hints.detailBias)

(* The lower-cased prompt of the call contains a cue of the list. *)
HasCue(cues) == includesAny(toLowerCase(fallbackPrompt), cues)

(* C20. Detail-bias precedence: the detail bias of a call is organic when   *)
(* its lower-cased prompt contains an organic cue, whether or not it        *)
(* contains a mechanical one; mechanical when it contains a mechanical cue  *)
(* and no organic cue; neutral otherwise.                                   *)
C20_DetailBiasPrecedence ==
  pc # "idle"
    => /\ HasCue(DETAIL_BIAS_KEYWORDS.organic) => hints.detailBias = "organic"
       /\ (HasCue(DETAIL_BIAS_KEYWORDS.mechanical) /\ ~HasCue(DETAIL_BIAS_KEYWORDS.organic))
            => hints.detailBias = "mechanical"
       /\ (~HasCue(DETAIL_BIAS_KEYWORDS.mechanical) /\ ~HasCue(DETAIL_BIAS_KEYWORDS.organic))
            => hints.detailBias = "neutral"

(* A call whose prompt holds an organic and a mechanical cue has returned   *)
(* meshes composed under organic bias.                                      *)
C20_Witness ==
  /\ pc = "done"
  /\ fallbackPrompt = "dragon robot"
  /\ HasCue(DETAIL_BIAS_KEYWORDS.organic)
  /\ HasCue(DETAIL_BIAS_KEYWORDS.mechanical)
  /\ hints.detailBias = "organic"
  /\ Len(result[1].meshes) > 0
  /\ result[1].meshes[1].material.metalness = 65

(* A draw of the call carries the label. *)
Drew(label) == \E k \in 1..Len(drawLog) : drawLog[k].label = label

(* C21. Keyword scenario "a red robot drone": the colour hints include      *)
(* #ef4444, the detail bias is mechanical, the call does not return through *)
(* the named template, and the theme is mechanical, selected without a      *)
(* draw.                                                                    *)
C21_RedRobotDrone ==
  (pc # "idle" /\ fallbackPrompt = "a red robot drone")
    => /\ \E i \in 1..Len(hints.paletteOverride) : hints.paletteOverride[i] = "#ef4444"
       /\ hints.detailBias = "mechanical"
       /\ ~Drew("template-id")
       /\ pc # "threw"
       /\ pc \in {"compose", "done"} => (theme = "mechanical" /\ ~Drew("theme"))

(* The call for "a red robot drone" has returned a blueprint of the         *)
(* mechanical theme whose accent is the red of the hint.                    *)
C21_Witness ==
  /\ pc = "done"
  /\ fallbackPrompt = "a red robot drone"
  /\ theme = "mechanical"
  /\ result[1].accentColor = "#ef4444"
  /\ result[1].environment = "city"

(* The labels of the draws of the call, in order. *)
DrawLabels == [k \in 1..Len(drawLog) |-> drawLog[k].label]

(* C22, as stated. Keyword scenario "a single glowing crystal statue": the  *)
(* blueprint has exactly 1 mesh and its theme is abstract, selected through *)
(* the keyword "crystal" and not through a draw.                            *)
C22_CrystalStatue_Stated ==
  (pc = "done" /\ fallbackPrompt = "a single glowing crystal statue")
    => /\ Len(result[1].meshes) = 1
       /\ theme = "abstract"
       /\ ~Drew("theme")

(* C22, amended. For "a single glowing crystal statue" the single-object    *)
(* cues force one mesh without a count draw; no theme keyword occurs in the *)
(* prompt ("crystal" is a geometry keyword and makes icosahedron the        *)
(* preferred geometry), so the theme comes from the first draw of the call, *)
(* which for the seed of this prompt selects mechanical.                    *)
C22_CrystalStatue ==
  (pc # "idle" /\ fallbackPrompt = "a single glowing crystal statue")
    => /\ hints.meshTarget = <<1>>
       /\ hints.preferredThemeId = Undefined
       /\ findTheme(toLowerCase(fallbackPrompt)) = 0
       /\ hints.geometryPreference = "icosahedron"
       /\ pc # "threw"
       /\ pc \in {"compose", "done"}
            => /\ theme = "mechanical"
               /\ clampedMeshCount = 1
               /\ DrawLabels[1] = "theme"
               /\ \A k \in 2..Len(drawLog) : DrawLabels[k] \notin {"theme", "count"}
       /\ pc = "done" => Len(result[1].meshes) = 1

(* The call for "a single glowing crystal statue" has returned one mesh of  *)
(* the mechanical theme after a theme draw.                                 *)
C22_Witness ==
  /\ pc = "done"
  /\ fallbackPrompt = "a single glowing crystal statue"
  /\ Len(result[1].meshes) = 1
  /\ theme = "mechanical"
  /\ Drew("theme")
  /\ result[1].environment = "city"

(* No two meshes of the list have the same id. *)
UniqueIds(ms) == \A i, j \in 1..Len(ms) : i # j => ms[i].id # ms[j].id

(* C23. Mesh ids are unique within a blueprint: no two meshes of a returned *)
(* blueprint, nor of the list under composition, have the same id.          *)
C23_UniqueMeshIds ==
  /\ UniqueIds(meshes)
  /\ pc = "done" => UniqueIds(result[1].meshes)

(* A blueprint of four meshes has been returned in which every mesh has the *)
(* same geometry kind and the same numeric suffix, so that the ids differ   *)
(* in the mesh index only.                                                  *)
C23_Witness ==
  /\ pc = "done"
  /\ Len(result[1].meshes) = 4
  /\ \A i \in 1..4 : result[1].meshes[i].id = "undefined-" \o ToString(i - 1) \o "-0"
  /\ UniqueIds(result[1].meshes)

EnvironmentTags == {"studio", "city", "sunset", "nebula"}

(* Index in ENVIRONMENT_KEYWORDS of the first environment whose cue occurs *)
(* in the lower-cased prompt of the call, 0 if there is none.              *)
EnvironmentCue ==
  FindFirst(ENVIRONMENT_KEYWORDS,
            LAMBDA entry : includesAny(toLowerCase(fallbackPrompt), entry.terms))

(* C24, as stated. Theme-derived environment: a blueprint returned on the   *)
(* theme path carries the environment of the selected theme, and every      *)
(* blueprint carries one of studio, city, sunset, nebula.                   *)
C24_ThemeEnvironment_Stated ==
  pc = "done"
    => /\ ~TemplatePathTaken => result[1].environment = ThemeById(theme).environment
       /\ result[1].environment \in EnvironmentTags

(* C24, amended. A blueprint returned on the theme path carries the         *)
(* environment of the first environment cue found in the prompt and, when   *)
(* the prompt has no environment cue, the environment of the selected       *)
(* theme; a template blueprint carries studio; every blueprint carries one  *)
(* of studio, city, sunset, nebula.                                         *)
C24_ThemeEnvironment ==
  pc = "done"
    => /\ (~TemplatePathTaken /\ EnvironmentCue # 0)
            => result[1].environment = ENVIRONMENT_KEYWORDS[EnvironmentCue].env
       /\ (~TemplatePathTaken /\ EnvironmentCue = 0)
            => result[1].environment = ThemeById(theme).environment
       /\ TemplatePathTaken => result[1].environment = "studio"
       /\ result[1].environment \in EnvironmentTags

(* A blueprint of the aero theme, whose environment is studio, has been     *)
(* returned with the environment city that the prompt asks for.             *)
C24_Witness ==
  /\ pc = "done"
  /\ fallbackPrompt = "neon city car"
  /\ theme = "aero"
  /\ ThemeById(theme).environment = "studio"
  /\ EnvironmentCue # 0
  /\ result[1].environment = "city"

(* C25. Concurrent independence: of two calls interleaved draw by draw,   *)
(* each receives the draws of a generator seeded with its own seed and    *)
(* used by nobody else, and ends as it ends when run alone, returning the *)
(* same blueprint.                                                        *)
C25_ConcurrentIndependence ==
  \A c \in CallIds :
    /\ ctx[c].got = Draws(createGenerator(ctx[c].seed), Len(ctx[c].got))
    /\ ctx[c].pc \in {"done", "threw"}
         => /\ ctx[c].pc = Alone[ctx[c].input].outcome
            /\ ctx[c].result = Alone[ctx[c].input].result

(* Two calls with different prompts, each of which drew between two draws *)
(* of the other, have returned the blueprints they return alone.          *)
C25_Witness ==
  /\ \A c \in CallIds :
       /\ ctx[c].pc = "done"
       /\ ctx[c].interleaved
       /\ Len(ctx[c].result[1].meshes) >= 2
       /\ ctx[c].result = Alone[ctx[c].input].result
  /\ ctx[1].input = <<"robot">>
  /\ ctx[2].input = <<"glowing orb">>

(* The request being handled has a parsed body. *)
HasBody == request.parsed /\ request.body # <<>>

(* The one response sent is a success that carries, under modelSpec, the  *)
(* blueprint generateModelSpec returns for the prompt of the request, and *)
(* no upstream asset.                                                     *)
FallbackAnswer ==
  /\ Len(sent) = 1
  /\ sent[1].status = 200
  /\ Blueprints[request.body[1].prompt].outcome = "done"
  /\ sent[1].body.modelSpec = Blueprints[request.body[1].prompt].result[1]
  /\ request.server = "model" => sent[1].body.model3DUrl = Null
  /\ request.server = "texture" => sent[1].body.textureDataUrl = Null

(* C26. Procedural fallback at the HTTP boundary: a request with a prompt *)
(* or a reference image whose upstream model call failed is answered      *)
(* successfully with the blueprint generateModelSpec(prompt) under        *)
(* modelSpec and a null asset; a request with neither prompt nor image is *)
(* answered 400 and generateModelSpec is not called.                      *)
C26_ProceduralFallback ==
  (handlerPc = "end" /\ HasBody)
    => /\ ((HasPrompt(request.body[1]) \/ HasImage(request.body[1]))
             /\ upstream \in {"error", "nullish"})
            => FallbackAnswer
       /\ (~HasPrompt(request.body[1]) /\ ~HasImage(request.body[1]))
            => /\ Len(sent) = 1
               /\ sent[1].status = 400
               /\ specCalls = <<>>

(* n copies of a label. *)
Repeat(label, n) == [k \in 1..n |-> label]

(* The number of draws createGeometry is said to make for each kind. *)
GeometryDraws(type) ==
  CASE type = "sphere" -> 3
    [] type = "box" -> 3
    [] type = "torus" -> 4
    [] type = "cylinder" -> 5
    [] type = "cone" -> 4
    [] type = "icosahedron" -> 2

(* The draws said to be made for the mesh of 0-based index i. *)
MeshDrawOrder(i, type) ==
  <<"kind">> \o Repeat("geometry", GeometryDraws(type))
    \o (IF i > 0 THEN Repeat("transform", 9) \o <<"palette">> ELSE <<>>)
    \o Repeat("modifiers", 6)
    \o (IF i > 0 THEN <<"wireframe">> ELSE <<>>)
    \o <<"id", "name">>

(* The draws said to be made for the first n meshes of the list. *)
RECURSIVE MeshesDrawOrder(_, _)
MeshesDrawOrder(ms, n) ==
  IF n = 0 THEN <<>>
  ELSE MeshesDrawOrder(ms, n - 1) \o MeshDrawOrder(n - 1, ms[n].geometry.type)

(* The draws said to be made before the first mesh. *)
HeadDrawOrder ==
  (IF findTheme(toLowerCase(fallbackPrompt)) = 0 THEN <<"theme">> ELSE <<>>)
    \o (IF ~HasCue(SINGLE_OBJECT_KEYWORDS) /\ ~HasCue(MULTI_OBJECT_KEYWORDS)
          THEN <<"count">> ELSE <<>>)

TemplatePrefixes == <<"bat-blade", "bat-handle", "bat-cap">>

(* C27. Fixed RNG call order: the draws of a returned call are the first  *)
(* values of one generator seeded with the seed of the call; on the theme *)
(* path they are, in order, the theme draw iff no theme keyword matched,  *)
(* the count draw iff no cardinality cue matched, then for each mesh in   *)
(* index order 1 kind draw, the geometry draws of its kind, 9 transform   *)
(* and 1 palette draw (index > 0), 6 modifier draws, 1 wireframe draw     *)
(* (index > 0), 1 id draw and 1 name draw; on the template path they are  *)
(* exactly 3, one per mesh id in mesh order.                              *)
C27_DrawOrder ==
  pc = "done"
    => /\ StatesOf(drawLog) = Draws(createGenerator(seed), Len(drawLog))
       /\ ~TemplatePathTaken
            => DrawLabels = HeadDrawOrder \o MeshesDrawOrder(meshes, Len(meshes))
       /\ TemplatePathTaken
            => /\ DrawLabels = Repeat("template-id", 3)
               /\ Len(result[1].meshes) = 3
               /\ \A i \in 1..3 :
                    result[1].meshes[i].id
                      = createTemplateId(TemplatePrefixes[i], drawLog[i].state)

(* The colour occurs in the palette. *)
InPalette(colour, pal) == \E i \in 1..Len(pal) : pal[i] = colour

(* The palette tryTemplateSpec hands to the template of the call. *)
TemplatePalette ==
  IF Len(hints.paletteOverride) > 0 THEN hints.paletteOverride ELSE TEMPLATE_DEFAULT_PALETTE

(* C28. Accent is a palette colour: the accent of a returned blueprint is *)
(* an element of the palette that colours its meshes.  On the theme path  *)
(* it is palette[0] when the prompt has a colour hint (and the primary    *)
(* mesh then has the same colour and emissive colour), and the accent of  *)
(* the theme, a member of the palette of the theme, when it has none.  On *)
(* the template path it is palette[0], and the logo panel has the colour  *)
(* of the blade.  The accent of each theme is in the palette of the theme. *)
C28_AccentInPalette ==
  /\ \A i \in 1..Len(THEME_PRESETS) :
       InPalette(THEME_PRESETS[i].accentColor, THEME_PRESETS[i].palette)
  /\ (pc = "done" /\ ~TemplatePathTaken)
       => /\ InPalette(result[1].accentColor, palette)
          /\ Len(hints.paletteOverride) > 0
               => /\ result[1].accentColor = palette[1]
                  /\ result[1].meshes[1].material.color
                       = result[1].meshes[1].material.emissive
          /\ Len(hints.paletteOverride) = 0
               => /\ result[1].accentColor = ThemeById(theme).accentColor
                  /\ palette = ThemeById(theme).palette
  /\ TemplatePathTaken
       => /\ result[1].accentColor = TemplatePalette[1]
          /\ result[1].meshes[1].material.color = TemplatePalette[1]
          /\ result[1].meshes[3].material.color = result[1].meshes[1].material.color

(* A blueprint of the aero theme has been returned for a prompt with two  *)
(* colour hints: its accent is the first hint, the first colour of the    *)
(* palette, and not the accent of the theme.                              *)
C28_Witness ==
  /\ pc = "done"
  /\ fallbackPrompt = "blue green ship"
  /\ theme = "aero"
  /\ hints.paletteOverride = <<"#3b82f6", "#22c55e">>
  /\ result[1].accentColor = "#3b82f6"
  /\ palette[1] = "#3b82f6"
  /\ result[1].accentColor # ThemeById(theme).accentColor
  /\ result[1].meshes[1].material.color = "#3b82f6"

(* C29. Secondary colours differ from the primary colour: on the theme   *)
(* path the resolved palette has no duplicates and at least 4 entries,    *)
(* and every mesh with index > 0 has a material colour different from the *)
(* colour of mesh 0.                                                      *)
C29_SecondaryColours ==
  (ThemePathTaken /\ theme \in ThemeIds)
    => /\ Len(palette) >= 4
       /\ \A i, j \in 1..Len(palette) : palette[i] = palette[j] => i = j
       /\ \A i \in 2..Len(meshes) :
            meshes[i].material.color # meshes[1].material.color

(* C30. Exactly one response per request: the POST /api/generate-model    *)
(* handler of the 3D-model server never sends a second response, and when *)
(* the handling of a request has ended, on whichever path (missing body,  *)
(* missing prompt and image, invalid image, upstream success, upstream    *)
(* failure with procedural fallback, fallback failure, unexpected error), *)
(* exactly one response has been sent.                                    *)
C30_OneResponse ==
  (handlerPc # "idle" /\ request.server = "model")
    => /\ Len(sent) <= 1
       /\ handlerPc = "end" => Len(sent) = 1

(* The 3D-model server has ended a request whose upstream call rejected   *)
(* and whose procedural fallback threw: the one response is the 500 of    *)
(* the fallback catch.                                                    *)
C30_Witness ==
  /\ handlerPc = "end"
  /\ request.server = "model"
  /\ upstream = "error"
  /\ specCalls = << <<"model 334185432">> >>
  /\ sent = << Response(500, ErrorBody) >>

====
